---- MODULE Spec2Model ----
(***************************************************************************)
(* faketree: the three-stage launcher and its PID-1 supervisor.             *)
(*                                                                         *)
(* main selects the stage by argv[0]: S0 enterSystem, S1 initializeSystem  *)
(* (hostname, mounts, then enterPrivileges), S2 initializePrivileges       *)
(* (setuid, setgid, chdir, then Exec of the user command).                 *)
(*                                                                         *)
(* Two supervisor processes run RunAndWait:                                *)
(*   S0  enterSystem      direct child = the S1 process                    *)
(*   S1  enterPrivileges  direct child = the S2 process, which exec's the  *)
(*                        user command (same pid)                          *)
(* S1 is pid 1 of the new pid namespace; the user command and the          *)
(* processes it forks live in that namespace.                              *)
(***************************************************************************)
EXTENDS Integers, Sequences, FiniteSets, TLC

----------------------------------------------------------------------------
(* Bounds of the model                                                     *)

\* processes of the namespace besides the user command
MaxGrand == 1
\* signals the environment sends to the launcher in one run
MaxSignals == 2
\* --mount flags of one run
MaxMounts == 2
\* setup operations that fail in one run
MaxFailures == 5
\* comma-separated fields of the options of one --mount flag
MaxFields == 4
\* flags of one command line
MaxArgs == 2

----------------------------------------------------------------------------
(* Program constants                                                       *)

kDefaultExit == 125
SIGTERM == 15
SIGKILL == 9
SIGCHLD == 17
\* capacity of the channel made by ReceiveSignals
ChanCap == 1

\* the signals the environment sends to the launcher
Signals == {SIGTERM, SIGCHLD}
\* signals that end the user command whatever its handlers: SIGSEGV, with
\* or without a core dump
DeathSignals == {11}
\* exit codes of the user command (0, the launcher's own code, the largest)
\* and of the other processes
ExitCodes == {0, 125, 255}
GExitCodes == {3}
\* values of --wait-timeout (a duration; 0 disables)
Timeouts == {0, 1}

Sups == {"S0", "S1"}
S1Pid == 1
UPid == 2
NsPids == UPid .. (UPid + MaxGrand)
\* plain: default action on every signal; deaf: ignores SIGTERM;
\* stubborn: ignores SIGTERM and runs until it is killed
UKinds == {"plain", "deaf"}
GKinds == {"plain", "stubborn"}

VARIABLES
    cfg,        \* Flags: wait, propagate, tow (TermOnWait), timeout
    pc,         \* position of each supervisor's main activity
    sub,        \* signals each supervisor's channel is subscribed to
    chan,       \* the channel of ReceiveSignals, per supervisor
    fpc,        \* position of the PropagateSignals goroutine
    fpid,       \* the pid PropagateSignals was started with
    held,       \* the signal PropagateSignals has received and not yet sent
    wst,        \* wait status each supervisor process ended with (-1: running)
    ret,        \* the error handed to exit()
    perr,       \* WaitChildren's remembered result
    proc,       \* the processes of the namespace
    ustatus,    \* wait status the user command ended with (-1: none yet)
    reaped,     \* pids the S1 supervisor has reaped
    timers,     \* pending SIGKILL timers (goroutines in time.Sleep)
    termCount,  \* kill(-1, SIGTERM) calls of the wait loop
    killCount,  \* kill(-1, SIGKILL) calls of the timers
    nsig,       \* signals sent by the environment so far
    rcvd,       \* ids of the signals each subscription received, in order
    sent,       \* kill(2) calls of each forwarder, in order
    hardErr     \* a wait4 call failed with an error other than ECHILD

\* the stages: main, initializeSystem, initializePrivileges, Exec
VARIABLES
    sflags,     \* Flags of the run: fail, proc, hostname, chdir, mount
    chain,      \* the processes of the run in the order they were started
    spc,        \* position of the newest process of the chain
    mi,         \* index of the mount the loop of initializeSystem is at
    cur,        \* the normalized mount of this iteration
    mkerr,      \* MakeTarget of this iteration failed
    slog,       \* the operations attempted so far, in order
    sexit       \* exit code of the newest process (-1: running)

runVars == <<cfg, pc, sub, chan, fpc, fpid, held, wst, ret, perr, proc, ustatus,
             reaped, timers, termCount, killCount, nsig, rcvd, sent, hardErr>>
\* the command line: NewMountFlags, MountFlags.String, Flags.Parse, Flags.Args
VARIABLES
    pkind,      \* what is parsed: a --mount value, an options string, an argv
    pin,        \* the text that is parsed
    ppc,        \* how far the round trip has come
    pv1,        \* the result of parsing pin
    ptxt,       \* pv1 turned into text again
    pv2         \* the result of parsing ptxt

setupVars == <<sflags, chain, spc, mi, cur, mkerr, slog, sexit>>
parseVars == <<pkind, pin, ppc, pv1, ptxt, pv2>>
auxVars == <<setupVars, parseVars>>
vars == <<runVars, auxVars>>

supVars == <<pc, sub, chan, fpc, fpid, held, wst, ret, rcvd, sent>>
loopVars == <<perr, timers, termCount, killCount, hardErr>>

----------------------------------------------------------------------------
(* Wait statuses, errors and exit()                                        *)

\* syscall.WaitStatus of a process that called exit(K)
WExited(K) == K * 256
\* syscall.WaitStatus of a process ended by signal N
WSignaled(N, core) == N + (IF core THEN 128 ELSE 0)

Exited(w) == w % 128 = 0
ExitStatusOf(w) == IF Exited(w) THEN (w \div 256) % 256 ELSE -1
Signaled(w) == w % 128 # 0 /\ w % 128 # 127
TermSignal(w) == w % 128

NilErr == [t |-> "nil", v |-> 0]
NoErr == [t |-> "none", v |-> 0]
Errno(e) == [t |-> e, v |-> 0]
StartErr == [t |-> "start", v |-> 0]
ExitStatus(n) == [t |-> "ExitStatus", v |-> n]
ExitError(w) == [t |-> "ExitError", v |-> w]

\* (*ProcessState).ExitCode
ProcessExitCode(w) == ExitStatusOf(w)

\* mutant: exit() ends with the launcher's code whatever the error
ExitArgDefault(err) == kDefaultExit
\* the argument exit(err) passes to os.Exit
ExitArg(err) ==
    CASE err.t = "nil" -> 0
      [] err.t = "ExitError" -> ProcessExitCode(err.v)
      [] err.t = "ExitStatus" -> err.v
      [] OTHER -> kDefaultExit

\* the wait status of a process that called os.Exit(n)
OsExit(n) == WExited(n % 256)

\* what (*exec.Cmd).Wait returns for a child that ended with status w
CmdWaitErr(w) == IF Exited(w) /\ ExitStatusOf(w) = 0 THEN NilErr ELSE ExitError(w)

\* WaitChildren: childerr
childerr(err, p) == IF err.t = "ECHILD" THEN p ELSE err

\* WaitChildren: the result remembered for the direct child
Remember(w) == IF Exited(w) THEN ExitStatus(ExitStatusOf(w)) ELSE ExitStatus(w)

----------------------------------------------------------------------------
(* Parameters of the two RunAndWait calls                                  *)

\* mutant: RunAndWait always takes the cmd.Wait() branch
WaitNever(s) == FALSE
\* mutant: enterSystem passes flags.Wait like enterPrivileges
WaitAsConfigured(s) == cfg.wait
Wait(s) == IF s = "S0" THEN FALSE ELSE cfg.wait
Propagate(s) == cfg.propagate
\* mutant: the SIGTERM sweep does not look at the flag
TermOnWaitAlways(s) == TRUE
TermOnWait(s) == IF s = "S0" THEN FALSE ELSE cfg.tow
Timeout(s) == cfg.timeout
\* mutant: enterPrivileges passes 0 like enterSystem
PidOverrideZero(s) == 0
PidOverride(s) == IF s = "S0" THEN 0 ELSE -1
\* cmd.Process.Pid
ChildPid(s) == IF s = "S0" THEN S1Pid ELSE UPid

\* RunAndWait: the pid handed to PropagateSignals
ForwardPid(pid, child) == IF pid = 0 THEN child ELSE pid

\* mutant: ReceiveSignals without signal.Reset(SIGCHLD)
SubscriptionAll == Signals
\* ReceiveSignals: signal.Notify(c) then signal.Reset(SIGCHLD)
Subscription == Signals \ {SIGCHLD}

\* signal.Notify's send: never blocks, a full channel loses the signal
ChanSend(c, x) == IF Len(c) < ChanCap THEN Append(c, x) ELSE c
\* mutant: the receive leaves the signal in the channel
ChanRestKeep(c) == c
\* PropagateSignals: what s := <-c leaves in the channel
ChanRest(c) == Tail(c)

----------------------------------------------------------------------------
(* The processes of the namespace                                          *)

Live(pr) == {p \in NsPids : pr[p].st \in {"alive", "zombie"}}
Alive(pr) == {p \in NsPids : pr[p].st = "alive"}
Children(pr, q) == {p \in Live(pr) : pr[p].parent = q}
Zombies(pr, q) == {p \in Children(pr, q) : pr[p].st = "zombie"}

\* the processes of D end with status w; their children go to pid 1
Die(pr, D, w) ==
    [p \in NsPids |->
        IF p \in D
        THEN [pr[p] EXCEPT !.st = "zombie", !.status = w,
                           !.parent = IF @ \in D THEN S1Pid ELSE @]
        ELSE IF pr[p].st \in {"alive", "zombie"} /\ pr[p].parent \in D
        THEN [pr[p] EXCEPT !.parent = S1Pid]
        ELSE pr[p]]

\* the processes kill(pid, sig) reaches when called by pid 1
Targets(pr, pid) == IF pid = -1 THEN Alive(pr) ELSE Alive(pr) \cap {pid}
\* those of them that the signal ends
Victims(pr, pid, sig) ==
    {p \in Targets(pr, pid) :
        sig # SIGCHLD /\ (sig = SIGKILL \/ pr[p].kind = "plain")}
\* kill(pid, sig) called by pid 1
Kill(pr, pid, sig) == Die(pr, Victims(pr, pid, sig), WSignaled(sig, FALSE))

UStatusAfter(pr) ==
    IF ustatus = -1 /\ pr[UPid].st = "zombie" THEN pr[UPid].status ELSE ustatus

NsRunning == pc["S1"] \notin {"idle", "done"}

----------------------------------------------------------------------------
(* Initial state: S0 enters RunAndWait, nothing else exists yet            *)

NoSig == [id |-> 0, sig |-> 0]
NoProc == [st |-> "none", parent |-> 0, kind |-> "plain", status |-> 0]
Gone == [st |-> "gone", parent |-> 0, kind |-> "plain", status |-> 0]

\* the flags RunAndWait and WaitChildren look at
Configs == [wait : BOOLEAN, propagate : BOOLEAN, tow : BOOLEAN, timeout : Timeouts]

RunFrom(configs) ==
    /\ cfg \in configs
    /\ pc = [s \in Sups |-> IF s = "S0" THEN "recv" ELSE "idle"]
    /\ sub = [s \in Sups |-> {}]
    /\ chan = [s \in Sups |-> <<>>]
    /\ fpc = [s \in Sups |-> "off"]
    /\ fpid = [s \in Sups |-> 0]
    /\ held = [s \in Sups |-> NoSig]
    /\ wst = [s \in Sups |-> -1]
    /\ ret = [s \in Sups |-> NoErr]
    /\ perr = Errno("ECHILD")
    /\ proc = [p \in NsPids |-> NoProc]
    /\ ustatus = -1
    /\ reaped = {}
    /\ timers = 0
    /\ termCount = 0
    /\ killCount = 0
    /\ nsig = 0
    /\ rcvd = [s \in Sups |-> <<>>]
    /\ sent = [s \in Sups |-> <<>>]
    /\ hardErr = FALSE

RunInit == RunFrom(Configs)

\* the stages are not looked at
NoFlags == [fail |-> FALSE, proc |-> FALSE, hostname |-> FALSE, chdir |-> FALSE,
            mount |-> <<>>, faketree |-> ""]
NoMount == [source |-> "", target |-> ""]
SetupIdle ==
    /\ sflags = NoFlags
    /\ chain = <<>>
    /\ spc = "idle"
    /\ mi = 0
    /\ cur = NoMount
    /\ mkerr = FALSE
    /\ slog = <<>>
    /\ sexit = -1

\* no text is parsed
NoValue == [err |-> TRUE]
ParseIdle ==
    /\ pkind = "none"
    /\ pin = <<>>
    /\ ppc = "idle"
    /\ pv1 = NoValue
    /\ ptxt = <<>>
    /\ pv2 = NoValue

Init == RunInit /\ SetupIdle /\ ParseIdle

----------------------------------------------------------------------------
(* RunAndWait                                                              *)

\* exit(err): the supervisor process ends
Exit(s, err) ==
    /\ ret' = [ret EXCEPT ![s] = err]
    /\ wst' = [wst EXCEPT ![s] = OsExit(ExitArg(err))]
    /\ pc' = [pc EXCEPT ![s] = "done"]

\* if propagate { c = ReceiveSignals() }
ReceiveSignals(s) ==
    /\ pc[s] = "recv"
    /\ sub' = [sub EXCEPT ![s] = IF Propagate(s) THEN Subscription ELSE {}]
    /\ pc' = [pc EXCEPT ![s] = "start"]
    /\ UNCHANGED auxVars
    /\ UNCHANGED <<cfg, chan, fpc, fpid, held, wst, ret, rcvd, sent, proc,
                   ustatus, reaped, nsig>>
    /\ UNCHANGED loopVars

\* cmd.Start() succeeds; if propagate { go PropagateSignals(c, pid) }
StartChild(s) ==
    /\ pc[s] = "start"
    /\ IF s = "S0"
       THEN /\ pc' = [pc EXCEPT !["S0"] = IF Wait(s) THEN "w_block" ELSE "cmdwait",
                                !["S1"] = "recv"]
            /\ proc' = proc
       ELSE /\ pc' = [pc EXCEPT ![s] = IF Wait(s) THEN "w_block" ELSE "cmdwait"]
            /\ \E k \in UKinds :
                 proc' = [proc EXCEPT ![UPid] =
                     [st |-> "alive", parent |-> S1Pid, kind |-> k, status |-> 0]]
    /\ fpc' = [fpc EXCEPT ![s] = IF Propagate(s) THEN "recv" ELSE "off"]
    /\ fpid' = [fpid EXCEPT ![s] =
                   IF Propagate(s) THEN ForwardPid(PidOverride(s), ChildPid(s)) ELSE @]
    /\ UNCHANGED auxVars
    /\ UNCHANGED <<cfg, sub, chan, held, wst, ret, rcvd, sent, ustatus, reaped, nsig>>
    /\ UNCHANGED loopVars

\* cmd.Start() fails: exit(err)
StartFails(s) ==
    /\ pc[s] = "start"
    /\ Exit(s, StartErr)
    /\ UNCHANGED auxVars
    /\ UNCHANGED <<cfg, sub, chan, fpc, fpid, held, rcvd, sent, proc, ustatus,
                   reaped, nsig>>
    /\ UNCHANGED loopVars

\* wait = false: err = cmd.Wait(); exit(err)
CmdWait(s) ==
    /\ pc[s] = "cmdwait"
    /\ IF s = "S0"
       THEN /\ pc["S1"] = "done"
            /\ Exit(s, CmdWaitErr(wst["S1"]))
            /\ UNCHANGED <<proc, reaped>>
       ELSE /\ proc[UPid].st = "zombie"
            /\ Exit(s, CmdWaitErr(proc[UPid].status))
            /\ proc' = [proc EXCEPT ![UPid] = Gone]
            /\ reaped' = reaped \cup {UPid}
    /\ UNCHANGED auxVars
    /\ UNCHANGED <<cfg, sub, chan, fpc, fpid, held, rcvd, sent, ustatus, nsig>>
    /\ UNCHANGED loopVars

----------------------------------------------------------------------------
(* WaitChildren, run by S1 when wait = true                                *)

\* return childerr(err)
Return(err) == Exit("S1", childerr(err, perr))

\* mutant: the pid wait4 returned is not compared with process.Pid
IsDirectChildAny(pid) == TRUE
\* "pid == process.Pid" (wait4 without WUNTRACED or WCONTINUED reports no
\* stopped or continued child)
IsDirectChild(pid) == pid = ChildPid("S1")

Reap(z) ==
    /\ proc' = [proc EXCEPT ![z] = Gone]
    /\ reaped' = reaped \cup {z}
    /\ IF IsDirectChild(z)
       THEN /\ perr' = Remember(proc[z].status)
            /\ pc' = [pc EXCEPT !["S1"] = "w_term"]
       ELSE /\ perr' = perr
            /\ pc' = [pc EXCEPT !["S1"] = "w_nohang"]
    /\ UNCHANGED <<wst, ret>>

\* syscall.Wait4(-1, &status, 0, &rusage)
Wait4Block ==
    /\ pc["S1"] = "w_block"
    /\ \/ /\ Children(proc, S1Pid) = {}
          /\ Return(Errno("ECHILD"))
          /\ UNCHANGED <<proc, reaped, perr>>
       \/ \E z \in Zombies(proc, S1Pid) : Reap(z)
    /\ UNCHANGED auxVars
    /\ UNCHANGED <<cfg, sub, chan, fpc, fpid, held, rcvd, sent, ustatus, nsig,
                   timers, termCount, killCount, hardErr>>

\* if termOnWait { syscall.Kill(-1, syscall.SIGTERM) }
TermSweep ==
    /\ pc["S1"] = "w_term"
    /\ IF TermOnWait("S1")
       THEN /\ proc' = Kill(proc, -1, SIGTERM)
            /\ termCount' = termCount + 1
       ELSE UNCHANGED <<proc, termCount>>
    /\ ustatus' = UStatusAfter(proc')
    /\ pc' = [pc EXCEPT !["S1"] = "w_timer"]
    /\ UNCHANGED auxVars
    /\ UNCHANGED <<cfg, sub, chan, fpc, fpid, held, wst, ret, rcvd, sent, reaped,
                   nsig, perr, timers, killCount, hardErr>>

\* mutant: the timer is started whatever the timeout
TimerArmedAlways(timeout) == TRUE
\* mutant: the timer is never started
TimerArmedNever(timeout) == FALSE
\* if timeout != 0 { go func() { time.Sleep(timeout); ... }() }
TimerArmed(timeout) == timeout # 0

StartTimer ==
    /\ pc["S1"] = "w_timer"
    /\ timers' = IF TimerArmed(Timeout("S1")) THEN timers + 1 ELSE timers
    /\ pc' = [pc EXCEPT !["S1"] = "w_nohang"]
    /\ UNCHANGED auxVars
    /\ UNCHANGED <<cfg, sub, chan, fpc, fpid, held, wst, ret, rcvd, sent, proc,
                   ustatus, reaped, nsig, perr, termCount, killCount, hardErr>>

\* the timer goroutine: syscall.Kill(-1, syscall.SIGKILL)
TimerFires ==
    /\ timers > 0
    /\ NsRunning
    /\ timers' = timers - 1
    /\ killCount' = killCount + 1
    /\ proc' = Kill(proc, -1, SIGKILL)
    /\ ustatus' = UStatusAfter(proc')
    /\ UNCHANGED auxVars
    /\ UNCHANGED <<cfg, reaped, nsig, perr, termCount, hardErr>>
    /\ UNCHANGED supVars

\* syscall.Wait4(-1, &status, syscall.WNOHANG, &rusage)
Wait4NoHang ==
    /\ pc["S1"] = "w_nohang"
    /\ \/ /\ Children(proc, S1Pid) = {}
          /\ Return(Errno("ECHILD"))
          /\ UNCHANGED <<proc, reaped, perr>>
       \/ \E z \in Zombies(proc, S1Pid) : Reap(z)
       \/ /\ Children(proc, S1Pid) # {}
          /\ Zombies(proc, S1Pid) = {}
          /\ pc' = [pc EXCEPT !["S1"] = "w_block"]
          /\ UNCHANGED <<proc, reaped, perr, wst, ret>>
    /\ UNCHANGED auxVars
    /\ UNCHANGED <<cfg, sub, chan, fpc, fpid, held, rcvd, sent, ustatus, nsig,
                   timers, termCount, killCount, hardErr>>

\* either wait4 call fails with an error that is not ECHILD
Wait4Error ==
    /\ pc["S1"] \in {"w_block", "w_nohang"}
    /\ Return(Errno("EINTR"))
    /\ hardErr' = TRUE
    /\ UNCHANGED auxVars
    /\ UNCHANGED <<cfg, sub, chan, fpc, fpid, held, rcvd, sent, proc, ustatus,
                   reaped, nsig, perr, timers, termCount, killCount>>

----------------------------------------------------------------------------
(* Signals: the subscription, the channel and PropagateSignals             *)

Running(s) == pc[s] \notin {"idle", "done"}
\* the signal goes to the channel of s
Caught(s, sig) == Running(s) /\ sig \in sub[s]
\* the signal ends s (no subscription; SIGCHLD is ignored by default)
Fatal(s, sig) == Running(s) /\ sig \notin sub[s] /\ sig # SIGCHLD

\* the environment signals the launcher (S0) once its subscription exists
EnvSignal(sig) ==
    /\ nsig < MaxSignals
    /\ Running("S0")
    /\ sub["S0"] # {}
    /\ nsig' = nsig + 1
    /\ IF Caught("S0", sig)
       THEN /\ chan' = [chan EXCEPT !["S0"] = ChanSend(@, [id |-> nsig + 1, sig |-> sig])]
            /\ rcvd' = [rcvd EXCEPT !["S0"] = Append(@, nsig + 1)]
       ELSE UNCHANGED <<chan, rcvd>>
    /\ UNCHANGED auxVars
    /\ UNCHANGED <<cfg, pc, sub, fpc, fpid, held, wst, ret, sent, proc, ustatus,
                   reaped>>
    /\ UNCHANGED loopVars

\* the processes a kill(pid, ...) of supervisor s reaches
Reached(s, pid) ==
    IF s = "S0"
    THEN (IF pid = S1Pid /\ Running("S1") THEN {S1Pid} ELSE {})
    ELSE Targets(proc, pid)

\* PropagateSignals: s := <-c
ForwardRecv(s) ==
    /\ Running(s)
    /\ fpc[s] = "recv"
    /\ chan[s] # <<>>
    /\ held' = [held EXCEPT ![s] = Head(chan[s])]
    /\ chan' = [chan EXCEPT ![s] = ChanRest(@)]
    /\ fpc' = [fpc EXCEPT ![s] = "kill"]
    /\ UNCHANGED auxVars
    /\ UNCHANGED <<cfg, pc, sub, fpid, wst, ret, rcvd, sent, proc, ustatus, reaped,
                   nsig>>
    /\ UNCHANGED loopVars

\* PropagateSignals: syscall.Kill(pid, s.(syscall.Signal))
ForwardKill(s) ==
    /\ Running(s)
    /\ fpc[s] = "kill"
    /\ fpc' = [fpc EXCEPT ![s] = "recv"]
    /\ held' = [held EXCEPT ![s] = NoSig]
    /\ sent' = [sent EXCEPT ![s] =
                   Append(@, [pid |-> fpid[s], id |-> held[s].id, sig |-> held[s].sig,
                              to |-> Reached(s, fpid[s])])]
    /\ IF s = "S0"
       THEN \* the target is the S1 process
            /\ IF fpid[s] = S1Pid /\ Caught("S1", held[s].sig)
               THEN /\ chan' = [chan EXCEPT !["S1"] = ChanSend(@, held[s])]
                    /\ rcvd' = [rcvd EXCEPT !["S1"] = Append(@, held[s].id)]
                    /\ UNCHANGED <<pc, wst>>
               ELSE IF fpid[s] = S1Pid /\ Fatal("S1", held[s].sig)
               THEN /\ pc' = [pc EXCEPT !["S1"] = "done"]
                    /\ wst' = [wst EXCEPT !["S1"] = WSignaled(held[s].sig, FALSE)]
                    /\ UNCHANGED <<chan, rcvd>>
               ELSE UNCHANGED <<pc, wst, chan, rcvd>>
            /\ UNCHANGED <<proc, ustatus>>
       ELSE \* the caller is pid 1 of the namespace
            /\ proc' = Kill(proc, fpid[s], held[s].sig)
            /\ ustatus' = UStatusAfter(proc')
            /\ UNCHANGED <<pc, wst, chan, rcvd>>
    /\ UNCHANGED auxVars
    /\ UNCHANGED <<cfg, sub, fpid, ret, reaped, nsig>>
    /\ UNCHANGED loopVars

----------------------------------------------------------------------------
(* The user command and its descendants                                    *)

FreePids == {p \in NsPids : proc[p].st = "none"}
NextPid == CHOOSE p \in FreePids : \A q \in FreePids : p <= q

\* a process of the namespace forks
Fork(q, k) ==
    /\ NsRunning
    /\ q \in Alive(proc)
    /\ FreePids # {}
    /\ proc' = [proc EXCEPT ![NextPid] =
                   [st |-> "alive", parent |-> q, kind |-> k, status |-> 0]]
    /\ UNCHANGED auxVars
    /\ UNCHANGED <<cfg, ustatus, reaped, nsig>>
    /\ UNCHANGED supVars
    /\ UNCHANGED loopVars

\* a process calls exit(K)
ProcExit(p, K) ==
    /\ NsRunning
    /\ p \in Alive(proc)
    /\ proc[p].kind # "stubborn"
    /\ K \in (IF p = UPid THEN ExitCodes ELSE GExitCodes)
    /\ proc' = Die(proc, {p}, WExited(K))
    /\ ustatus' = UStatusAfter(proc')
    /\ UNCHANGED auxVars
    /\ UNCHANGED <<cfg, reaped, nsig>>
    /\ UNCHANGED supVars
    /\ UNCHANGED loopVars

\* the user command is ended by a signal it cannot ignore
UserKilled(N, core) ==
    /\ NsRunning
    /\ UPid \in Alive(proc)
    /\ proc' = Die(proc, {UPid}, WSignaled(N, core))
    /\ ustatus' = UStatusAfter(proc')
    /\ UNCHANGED auxVars
    /\ UNCHANGED <<cfg, reaped, nsig>>
    /\ UNCHANGED supVars
    /\ UNCHANGED loopVars

\* A child that its own live parent reaps is never seen by pid 1; such a
\* process is left out, as if it had not been forked.

----------------------------------------------------------------------------
(* The stages: main, enterSystem, initializeSystem, initializePrivileges   *)

\* argv[0] of a process: the name of the binary, or a name NextCommand gave
Argv0s == {"faketree", "initialize-system", "initialize-privileges"}

\* mutant: no initializer is registered
InitializerNone(a) == "enterSystem"
\* reexec.Register / reexec.Init: the function main runs for argv[0]
Initializer(a) ==
    CASE a = "initialize-system" -> "initializeSystem"
      [] a = "initialize-privileges" -> "initializePrivileges"
      [] OTHER -> "enterSystem"

\* the --mount flags of the model: a bind mount on /proc/ and a file system
\* without source
MountKinds == {[source |-> "/src", target |-> "/proc/", flags |-> {4096},
                fstype |-> "", data |-> ""],
               [source |-> "", target |-> "/mnt/", flags |-> {},
                fstype |-> "tmpfs", data |-> "size=1m"]}
MountLists == UNION {[1 .. n -> MountKinds] : n \in 0 .. MaxMounts}

\* RealPath of a path that resolves: filepath.Abs cleans the path
RealPathOf(t) ==
    CASE t = "/proc/" -> "/proc"
      [] t = "/mnt/" -> "/mnt"
      [] OTHER -> t
\* Normalize: the target falls back to the flag's value, a source that does
\* not resolve is an error
NormalizeOk(m, okS) == m.source = "" \/ okS
\* mutant: the copy is made of source and target alone
NormalizedBare(m, okT) ==
    [source |-> IF m.source = "" THEN "" ELSE RealPathOf(m.source),
     target |-> IF okT THEN RealPathOf(m.target) ELSE m.target,
     flags |-> {}, fstype |-> "", data |-> ""]
\* retval := *mf; retval.Target = target; retval.Source = source
Normalized(m, okT) ==
    [m EXCEPT !.target = IF okT THEN RealPathOf(m.target) ELSE m.target,
              !.source = IF m.source = "" THEN "" ELSE RealPathOf(m.source)]
\* mount.Target == "/proc" || mount.Target == "/proc/"
IsProcTarget(t) == t = "/proc" \/ t = "/proc/"
\* "!flags.Proc &&" of the guard and of the automatic mount
AutoProc(f) == ~f.proc

\* the values of --hostname and --chdir when they are given
HostnameFlag == "box"
ChdirFlag == "/dir"
\* NewFlags: RealPath(reexec.Self()), the default of --faketree
DefaultFaketree == "/usr/bin/faketree"

\* the first process of a run: started by the caller, with the caller's
\* environment
Caller(a) ==
    [argv0 |-> a, by |-> "none", fn |-> "main", path |-> "", clone |-> {},
     pdeathsig |-> 0, sig |-> 0, env |-> <<>>]

\* the flags of the runs: any --fail, --proc, --hostname, --chdir, --mount
StageFlags == [fail : BOOLEAN, proc : BOOLEAN, hostname : BOOLEAN,
               chdir : BOOLEAN, mount : MountLists, faketree : {DefaultFaketree}]

SetupFrom(flagsets) ==
    /\ sflags \in flagsets
    /\ chain \in {<<Caller(a)>> : a \in Argv0s}
    /\ spc = "main"
    /\ mi = 0
    /\ cur = NoMount
    /\ mkerr = FALSE
    /\ slog = <<>>
    /\ sexit = -1

SetupInit == SetupFrom(StageFlags)

\* the newest process and the function it runs
Me == Len(chain)
Fn == chain[Me].fn
Event(op, i, ok) == [p |-> Me, op |-> op, i |-> i, ok |-> ok, said |-> <<>>]
Failures == Cardinality({k \in 1 .. Len(slog) : ~slog[k].ok})
\* an operation may fail while the run has failures left
MayBe(ok) == ok \/ Failures < MaxFailures

\* mutant: the loop leaves out every other mount
NextMountSkips(i) == i + 2
\* "for _, omount := range flags.Mount": the next iteration
NextMount(i) == i + 1

\* the error of a setup step handed to exit()
SetupErr == [t |-> "fmt.Errorf", v |-> 0]
Abort == spc' = "exit" /\ sexit' = ExitArg(SetupErr)
Continue(next) == spc' = next /\ sexit' = sexit
\* mutant: LogOrFail always logs
LogOrFailLogs(next) == Continue(next)
\* mutant: LogOrFail always exits
LogOrFailExits(next) == Abort
\* flags.LogOrFail: exit when --fail, log and go on otherwise
LogOrFail(next) == IF sflags.fail THEN Abort ELSE Continue(next)
\* the messages that come out when flags.LogOrFail is called for each of
\* msgs in turn: with --fail the first call does not return
Said(msgs) == IF sflags.fail /\ msgs # <<>> THEN <<Head(msgs)>> ELSE msgs
\* the LogOrFail calls after a mount that failed
MountErrors(mkfailed) ==
    (IF mkfailed THEN <<"Could not create mount target">> ELSE <<>>)
        \o <<"Could not mount">>

\* main: reexec.Init() runs the initializer registered for argv[0], or
\* enterSystem
Main ==
    /\ spc = "main"
    /\ chain' = [chain EXCEPT ![Me].fn = Initializer(chain[Me].argv0)]
    /\ spc' = "parse"
    /\ UNCHANGED <<sflags, mi, cur, mkerr, slog, sexit>>
    /\ UNCHANGED <<runVars, parseVars>>

\* mutant: the error of flags.Parse is dropped
ParseFlagsGoesOn(ok) ==
    /\ spc = "parse"
    /\ MayBe(ok)
    /\ slog' = Append(slog, Event("parse", 0, ok))
    /\ Continue(CASE Fn = "enterSystem" -> "system"
                  [] Fn = "initializeSystem" -> "hostname"
                  [] OTHER -> "setuid")
    /\ UNCHANGED <<sflags, chain, mi, cur, mkerr>>
    /\ UNCHANGED <<runVars, parseVars>>

\* flags.Parse(os.Args[1:]) of the three functions
ParseFlags(ok) ==
    /\ spc = "parse"
    /\ MayBe(ok)
    /\ slog' = Append(slog, Event("parse", 0, ok))
    /\ IF ok
       THEN Continue(CASE Fn = "enterSystem" -> "system"
                       [] Fn = "initializeSystem" -> "hostname"
                       [] OTHER -> "setuid")
       ELSE Abort
    /\ UNCHANGED <<sflags, chain, mi, cur, mkerr>>
    /\ UNCHANGED <<runVars, parseVars>>

\* reexec.Command: the Path of the command is reexec.Self()
ReexecSelf == "/proc/self/exe"
\* mutant: enterPrivileges leaves the Path of reexec.Command too
CmdPathSelf(fn) == ReexecSelf
\* the binary of the command: enterPrivileges sets cmd.Path = flags.Faketree,
\* enterSystem leaves what NextCommand made
CmdPath(fn) == IF fn = "initializeSystem" THEN sflags.faketree ELSE ReexecSelf
\* SysProcAttr.Cloneflags of the two commands
Cloneflags(fn) ==
    IF fn = "initializeSystem" THEN {"CLONE_NEWUSER"}
    ELSE {"CLONE_NEWPID", "CLONE_NEWNS", "CLONE_NEWUTS", "CLONE_NEWIPC",
          "CLONE_NEWUSER"}
\* mutant: enterPrivileges asks for no parent-death signal
PdeathsigNone(fn) == 0
\* SysProcAttr.Pdeathsig: enterPrivileges asks for SIGKILL with --propagate
\* and for SIGTERM without, enterSystem for none
Pdeathsig(fn) ==
    IF fn = "initializeSystem"
    THEN (IF cfg.propagate THEN SIGKILL ELSE SIGTERM)
    ELSE 0

\* os.Setenv
Setenv(env, name, value) ==
    IF \E i \in 1 .. Len(env) : env[i][1] = name
    THEN [i \in 1 .. Len(env) |-> IF env[i][1] = name THEN <<name, value>> ELSE env[i]]
    ELSE Append(env, <<name, value>>)

\* the process NextCommand(name) describes is started: it inherits the
\* environment of the process that starts it
Started(name) ==
    Append(chain, [argv0 |-> name, by |-> Fn, fn |-> "main", path |-> CmdPath(Fn),
                   clone |-> Cloneflags(Fn), pdeathsig |-> Pdeathsig(Fn),
                   sig |-> 0, env |-> chain[Me].env])

\* enterSystem: NextCommand("initialize-system"), cmd.Start() in RunAndWait
EnterSystem(ok) ==
    /\ spc = "system"
    /\ MayBe(ok)
    /\ slog' = Append(slog, Event("start", 0, ok))
    /\ IF ok
       THEN chain' = Started("initialize-system") /\ Continue("main")
       ELSE chain' = chain /\ Abort
    /\ UNCHANGED <<sflags, mi, cur, mkerr>>
    /\ UNCHANGED <<runVars, parseVars>>

\* mutant: HOSTNAME is written whether or not sethostname failed
HostnameEnvAlways(env, ok) == Setenv(env, "HOSTNAME", HostnameFlag)
\* if err := syscall.Sethostname(...); err != nil { LogOrFail } else {
\* os.Setenv("HOSTNAME", flags.Hostname) }
HostnameEnv(env, ok) == IF ok THEN Setenv(env, "HOSTNAME", HostnameFlag) ELSE env

\* initializeSystem: syscall.Sethostname when --hostname is given
SetHostname(ok) ==
    /\ spc = "hostname"
    /\ MayBe(ok)
    /\ IF sflags.hostname
       THEN /\ slog' = Append(slog, Event("sethostname", 0, ok))
            /\ chain' = [chain EXCEPT ![Me].env = HostnameEnv(@, ok)]
            /\ IF ok THEN Continue("loop") ELSE LogOrFail("loop")
       ELSE /\ ok
            /\ slog' = slog
            /\ chain' = chain
            /\ Continue("loop")
    /\ mi' = 1
    /\ UNCHANGED <<sflags, cur, mkerr>>
    /\ UNCHANGED <<runVars, parseVars>>

\* for _, omount := range flags.Mount { mount, err := omount.Normalize()
Normalize(okT, okS) ==
    /\ spc = "loop"
    /\ mi <= Len(sflags.mount)
    /\ LET m == sflags.mount[mi]
           ok == NormalizeOk(m, okS) IN
       /\ MayBe(ok)
       /\ slog' = Append(slog, Event("normalize", mi, ok))
       /\ IF ok
          THEN /\ cur' = Normalized(m, okT)
               /\ Continue("guard")
               /\ mi' = mi
          ELSE /\ cur' = cur
               /\ LogOrFail("loop")
               /\ mi' = NextMount(mi)
    /\ UNCHANGED <<sflags, chain, mkerr>>
    /\ UNCHANGED <<runVars, parseVars>>

\* if !flags.Proc && (mount.Target == "/proc" || ...) { LogOrFail; continue }
ProcGuard ==
    /\ spc = "guard"
    /\ IF AutoProc(sflags) /\ IsProcTarget(cur.target)
       THEN /\ slog' = Append(slog, Event("skip", mi, TRUE))
            /\ LogOrFail("loop")
            /\ mi' = NextMount(mi)
       ELSE /\ slog' = slog
            /\ Continue("mktarget")
            /\ mi' = mi
    /\ UNCHANGED <<sflags, chain, cur, mkerr>>
    /\ UNCHANGED <<runVars, parseVars>>

\* mkerr := mount.MakeTarget(os.FileMode(flags.Perms))
MakeTarget(ok) ==
    /\ spc = "mktarget"
    /\ MayBe(ok)
    /\ slog' = Append(slog, Event("mktarget", mi, ok))
    /\ mkerr' = ~ok
    /\ Continue("mount")
    /\ UNCHANGED <<sflags, chain, mi, cur>>
    /\ UNCHANGED <<runVars, parseVars>>

\* if err := mount.Mount(); err != nil { if mkerr != nil { LogOrFail }
\* LogOrFail }
Mount(ok) ==
    /\ spc = "mount"
    /\ MayBe(ok)
    /\ slog' = Append(slog, [Event("mount", mi, ok) EXCEPT
                                 !.said = IF ok THEN <<>> ELSE Said(MountErrors(mkerr))])
    /\ IF ok THEN Continue("loop") ELSE LogOrFail("loop")
    /\ mi' = NextMount(mi)
    /\ mkerr' = FALSE
    /\ UNCHANGED <<sflags, chain, cur>>
    /\ UNCHANGED <<runVars, parseVars>>

\* if !flags.Proc { mount /proc; on error LogOrFail }
AutoMount(ok) ==
    /\ spc = "loop"
    /\ mi > Len(sflags.mount)
    /\ MayBe(ok)
    /\ IF AutoProc(sflags)
       THEN /\ slog' = Append(slog, Event("automount", 0, ok))
            /\ IF ok THEN Continue("privileges") ELSE LogOrFail("privileges")
       ELSE /\ ok
            /\ slog' = slog
            /\ Continue("privileges")
    /\ UNCHANGED <<sflags, chain, mi, cur, mkerr>>
    /\ UNCHANGED <<runVars, parseVars>>

\* enterPrivileges: NextCommand("initialize-privileges"), cmd.Start() in
\* RunAndWait
EnterPrivileges(ok) ==
    /\ spc = "privileges"
    /\ MayBe(ok)
    /\ slog' = Append(slog, Event("start", 0, ok))
    /\ IF ok
       THEN chain' = Started("initialize-privileges") /\ Continue("main")
       ELSE chain' = chain /\ Abort
    /\ UNCHANGED <<sflags, mi, cur, mkerr>>
    /\ UNCHANGED <<runVars, parseVars>>

\* initializePrivileges: syscall.Setuid(flags.Uid)
Setuid(ok) ==
    /\ spc = "setuid"
    /\ MayBe(ok)
    /\ slog' = Append(slog, Event("setuid", 0, ok))
    /\ IF ok THEN Continue("setgid") ELSE LogOrFail("setgid")
    /\ UNCHANGED <<sflags, chain, mi, cur, mkerr>>
    /\ UNCHANGED <<runVars, parseVars>>

\* syscall.Setgid(flags.Gid)
Setgid(ok) ==
    /\ spc = "setgid"
    /\ MayBe(ok)
    /\ slog' = Append(slog, Event("setgid", 0, ok))
    /\ IF ok THEN Continue("chdir") ELSE LogOrFail("chdir")
    /\ UNCHANGED <<sflags, chain, mi, cur, mkerr>>
    /\ UNCHANGED <<runVars, parseVars>>

\* if flags.Chdir != "" { os.MkdirAll; os.Chdir, on error exit }
Chdir(ok) ==
    /\ spc = "chdir"
    /\ MayBe(ok)
    /\ IF sflags.chdir
       THEN /\ slog' = Append(slog, Event("chdir", 0, ok))
            /\ IF ok
               THEN /\ chain' = [chain EXCEPT ![Me].env = Setenv(@, "PWD", ChdirFlag)]
                    /\ Continue("exec")
               ELSE chain' = chain /\ Abort
       ELSE /\ ok
            /\ slog' = slog
            /\ chain' = chain
            /\ Continue("exec")
    /\ UNCHANGED <<sflags, mi, cur, mkerr>>
    /\ UNCHANGED <<runVars, parseVars>>

\* Exec(left...): exec.LookPath and syscall.Exec; the process becomes the
\* user command
Exec(ok) ==
    /\ spc = "exec"
    /\ MayBe(ok)
    /\ slog' = Append(slog, Event("exec", 0, ok))
    /\ IF ok
       THEN /\ chain' = [chain EXCEPT ![Me].fn = "user command",
                                     ![Me].env = Append(@, <<"FAKETREE", "true">>)]
            /\ Continue("user")
       ELSE chain' = chain /\ Abort
    /\ UNCHANGED <<sflags, mi, cur, mkerr>>
    /\ UNCHANGED <<runVars, parseVars>>

StageNext ==
    \/ Main
    \/ \E ok \in BOOLEAN : ParseFlags(ok)
    \/ \E ok \in BOOLEAN : EnterSystem(ok)
    \/ \E ok \in BOOLEAN : SetHostname(ok)
    \/ \E okT, okS \in BOOLEAN : Normalize(okT, okS)
    \/ ProcGuard
    \/ \E ok \in BOOLEAN : MakeTarget(ok)
    \/ \E ok \in BOOLEAN : Mount(ok)
    \/ \E ok \in BOOLEAN : AutoMount(ok)
    \/ \E ok \in BOOLEAN : EnterPrivileges(ok)
    \/ \E ok \in BOOLEAN : Setuid(ok)
    \/ \E ok \in BOOLEAN : Setgid(ok)
    \/ \E ok \in BOOLEAN : Chdir(ok)
    \/ \E ok \in BOOLEAN : Exec(ok)

\* the supervisors are not looked at
RunIdle ==
    /\ RunInit
    /\ cfg = [wait |-> TRUE, propagate |-> TRUE, tow |-> TRUE, timeout |-> 1]

StageInit == RunIdle /\ SetupInit /\ ParseIdle
StageSpec == StageInit /\ [][StageNext]_vars

\* the S1 process dies while the process it started lives: the kernel sends
\* that process the parent-death signal it was started with, if any
ParentDies ==
    /\ chain[Me].by = "initializeSystem"
    /\ spc \notin {"exit", "orphaned"}
    /\ chain' = [chain EXCEPT ![Me].sig = chain[Me].pdeathsig]
    /\ spc' = "orphaned"
    /\ UNCHANGED <<sflags, mi, cur, mkerr, slog, sexit>>
    /\ UNCHANGED <<runVars, parseVars>>

\* the two transitions on their own: runs without --mount, --hostname and
\* --chdir, with either value of --propagate and with or without a
\* --faketree of the user
TransitFlags == [fail : BOOLEAN, proc : BOOLEAN, hostname : {FALSE},
                 chdir : {FALSE}, mount : {<<>>},
                 faketree : {DefaultFaketree, "/opt/faketree"}]
TransitConfigs == [wait : {TRUE}, propagate : BOOLEAN, tow : {TRUE}, timeout : {1}]
TransitInit == RunFrom(TransitConfigs) /\ SetupFrom(TransitFlags) /\ ParseIdle
TransitNext ==
    \/ Main
    \/ \E ok \in BOOLEAN : ParseFlags(ok)
    \/ \E ok \in BOOLEAN : EnterSystem(ok)
    \/ \E ok \in BOOLEAN : SetHostname(ok)
    \/ \E ok \in BOOLEAN : AutoMount(ok)
    \/ \E ok \in BOOLEAN : EnterPrivileges(ok)
    \/ \E ok \in BOOLEAN : Setuid(ok)
    \/ \E ok \in BOOLEAN : Setgid(ok)
    \/ \E ok \in BOOLEAN : Chdir(ok)
    \/ \E ok \in BOOLEAN : Exec(ok)
    \/ ParentDies
TransitSpec == TransitInit /\ [][TransitNext]_vars

----------------------------------------------------------------------------
(* The command line.  A text is a sequence of pieces: the separators      *)
(* ",", ":" and " ", the prefixes "type=" and "data=", the option names,  *)
(* and words that are none of these.                                      *)

\* strings.Index: the first place of piece a in text s, 0 when absent
IndexOf(s, a) ==
    IF \E i \in 1..Len(s) : s[i] = a
    THEN CHOOSE i \in 1..Len(s) : s[i] = a /\ \A j \in 1..(i - 1) : s[j] # a
    ELSE 0

\* strings.Split(s, sep)
RECURSIVE Split(_, _)
Split(s, sep) ==
    LET k == IndexOf(s, sep)
    IN  IF k = 0 THEN <<s>>
        ELSE <<SubSeq(s, 1, k - 1)>> \o Split(SubSeq(s, k + 1, Len(s)), sep)

\* strings.SplitN(s, sep, n), n > 0: the last part is the unsplit remainder
RECURSIVE SplitN(_, _, _)
SplitN(s, sep, n) ==
    LET k == IndexOf(s, sep)
    IN  IF n = 1 \/ k = 0 THEN <<s>>
        ELSE <<SubSeq(s, 1, k - 1)>> \o SplitN(SubSeq(s, k + 1, Len(s)), sep, n - 1)

\* strings.Join(parts, sep)
RECURSIVE Join(_, _)
Join(parts, sep) ==
    IF Len(parts) = 0 THEN <<>>
    ELSE IF Len(parts) = 1 THEN parts[1]
    ELSE parts[1] \o <<sep>> \o Join(Tail(parts), sep)

RECURSIVE TrimLeft(_)
TrimLeft(s) == IF Len(s) > 0 /\ s[1] = " " THEN TrimLeft(Tail(s)) ELSE s

RECURSIVE TrimRight(_)
TrimRight(s) ==
    IF Len(s) > 0 /\ s[Len(s)] = " " THEN TrimRight(SubSeq(s, 1, Len(s) - 1)) ELSE s

\* strings.TrimSpace(s)
TrimSpace(s) == TrimLeft(TrimRight(s))

\* len(strings.TrimPrefix(s, prefix)) < len(s)
HasPrefix(s, prefix) == Len(s) > 0 /\ s[1] = prefix

\* strings.TrimPrefix(s, prefix) of a text that has the prefix
TrimPrefix(s, prefix) == IF HasPrefix(s, prefix) THEN Tail(s) ELSE s

\* the options of the table that the model draws its inputs from, in the
\* order of the table, each with its bit of the mount flags
KnownOptions == <<
    [Name |-> "ro", Value |-> 1],
    [Name |-> "recursive", Value |-> 16384],
    [Name |-> "bind", Value |-> 4096],
    [Name |-> "private", Value |-> 262144] >>

\* A bitmask is the set of its bits: every option of the table is one bit,
\* so "|" is union and "(Value & flags) > 0" is membership.
BitOr(flags, value) == flags \cup {value}
BitSet(flags, value) == value \in flags

\* MS_BIND | MS_REC | MS_PRIVATE
DefaultMountFlags == {4096, 16384, 262144}

\* MountOptions.Find: the place of the option in the table, 0 for nil
Find(option) ==
    IF \E i \in 1..Len(KnownOptions) : <<KnownOptions[i].Name>> = option
    THEN CHOOSE i \in 1..Len(KnownOptions) : <<KnownOptions[i].Name>> = option
    ELSE 0

\* the names of the options whose bit is set, in the order of the table
RECURSIVE OptionNames(_, _)
OptionNames(flags, i) ==
    IF i > Len(KnownOptions) THEN <<>>
    ELSE (IF BitSet(flags, KnownOptions[i].Value)
          THEN <<(<<KnownOptions[i].Name>>)>> ELSE <<>>)
         \o OptionNames(flags, i + 1)

\* mutant: the names of the flags are always written
SerializeAll(flags, fstype, fsdata) ==
    Join(OptionNames(flags, 1)
         \o (IF fstype # <<>> THEN <<(<<"type=">> \o fstype)>> ELSE <<>>)
         \o (IF fsdata # <<>> THEN <<(<<"data=">> \o fsdata)>> ELSE <<>>), ",")
\* MountOptions.Serialize
Serialize(flags, fstype, fsdata) ==
    Join((IF flags # DefaultMountFlags THEN OptionNames(flags, 1) ELSE <<>>)
         \o (IF fstype # <<>> THEN <<(<<"type=">> \o fstype)>> ELSE <<>>)
         \o (IF fsdata # <<>> THEN <<(<<"data=">> \o fsdata)>> ELSE <<>>), ",")

\* mutant: only the first unknown option is kept
UnknownOptionFirst(errs, ix, field) ==
    IF errs = <<>> THEN <<[ix |-> ix - 1, field |-> field]>> ELSE errs
\* errs = append(errs, fmt.Errorf("file system option #%d is unknown: %s",
\* ix, field)), ix counted from 0
UnknownOption(errs, ix, field) == Append(errs, [ix |-> ix - 1, field |-> field])

\* the loop of MountOptions.Parse from field ix on
RECURSIVE ParseFields(_, _, _)
ParseFields(fields, ix, acc) ==
    IF ix > Len(fields) THEN acc
    ELSE LET field == TrimSpace(fields[ix])
         IN  IF HasPrefix(field, "type=")
             THEN ParseFields(fields, ix + 1,
                              [acc EXCEPT !.fstype = TrimPrefix(field, "type=")])
             ELSE IF HasPrefix(field, "data=")
             THEN [acc EXCEPT !.data =
                      Join(<<TrimPrefix(field, "data=")>>
                           \o SubSeq(fields, ix + 1, Len(fields)), ",")]
             ELSE IF Find(field) = 0
             THEN ParseFields(fields, ix + 1,
                      [acc EXCEPT !.err = TRUE,
                                  !.errs = UnknownOption(@, ix, field)])
             ELSE ParseFields(fields, ix + 1,
                      [acc EXCEPT !.flags =
                          BitOr(@, KnownOptions[Find(field)].Value)])

\* MountOptions.Parse
Parse(options) ==
    ParseFields(Split(options, ","), 1,
                [flags |-> {}, fstype |-> <<>>, data |-> <<>>, err |-> FALSE,
                 errs |-> <<>>])

\* NewMountFlags
NewMountFlags(mount) ==
    LET splits == SplitN(mount, ":", 3)
        o == Parse(splits[3])
    IN  IF Len(splits) = 3
        THEN IF o.err THEN NoValue
             ELSE [err |-> FALSE, Source |-> splits[1], Target |-> splits[2],
                   Flags |-> o.flags, Fstype |-> o.fstype, Data |-> o.data]
        ELSE IF Len(splits) = 2
        THEN [err |-> FALSE, Source |-> splits[1], Target |-> splits[2],
              Flags |-> DefaultMountFlags, Fstype |-> <<>>, Data |-> <<>>]
        ELSE NoValue

\* MountFlags.String
String(mf) ==
    LET options == Serialize(mf.Flags, mf.Fstype, mf.Data)
    IN  mf.Source \o <<":">> \o mf.Target
        \o (IF options # <<>> THEN <<":">> \o options ELSE <<>>)

\* the fields that the options of the inputs are made of
FieldKinds == {
    <<"ro">>, <<"bind">>, <<"recursive">>, <<"private">>, <<" ", "ro">>,
    <<"type=", "x">>, <<"type=">>, <<"data=", "x">>, <<"data=", "x", " ">>,
    <<"y">> }

\* the options strings of the inputs: up to MaxFields fields
OptionTexts ==
    {Join(fs, ",") : fs \in UNION {[1..n -> FieldKinds] : n \in 1..MaxFields}}

\* the values of --mount of the inputs
MountTexts ==
    {<<"/src">>} \cup
    {s \o <<":", "/mnt">> : s \in {<<>>, <<"/src">>}} \cup
    {<<"/src", ":", "/mnt", ":">> \o o : o \in OptionTexts}

\* the numbers of the inputs and their decimal text: strconv.Itoa, fmt.Sprint
Numbers == {0, 5, 104, 448, 493, 1000}
Itoa(n) ==
    CASE n = 0 -> <<"0">> [] n = 5 -> <<"5">> [] n = 104 -> <<"104">>
      [] n = 448 -> <<"448">> [] n = 493 -> <<"493">> [] n = 1000 -> <<"1000">>

\* strconv.Atoi: the number, or -1 for a text that is no number
Atoi(s) ==
    IF \E n \in Numbers : Itoa(n) = s
    THEN CHOOSE n \in Numbers : Itoa(n) = s
    ELSE -1

\* strconv.ParseUint(s, 0, 32) of pflag's Uint32Var: a leading 0 is octal
ParseUint(s) == IF s = <<"0700">> THEN 448 ELSE Atoi(s)

\* the timeouts of the inputs, in seconds, and time.Duration.String
Durations == {0, 1, 300}
DurationString(d) ==
    CASE d = 0 -> <<"0s">> [] d = 1 -> <<"1s">> [] d = 300 -> <<"5m0s">>

\* time.ParseDuration: the seconds, or -1 for a text that is no duration
ParseDuration(s) ==
    IF s = <<"300s">> THEN 300
    ELSE IF \E d \in Durations : DurationString(d) = s
    THEN CHOOSE d \in Durations : DurationString(d) = s
    ELSE -1

kDefaultPerms == 493
kDefaultTimeout == 300

\* os.Getuid, os.Getgid in the three stages: the caller's ids in S0, the
\* ContainerID 0 of enterSystem's id maps in S1, the ContainerID flags.Uid
\* and flags.Gid of enterPrivileges' id maps in S2
CallerId == [uid |-> 1000, gid |-> 1000]
SystemId == [uid |-> 0, gid |-> 0]
PrivilegesId(flags) == [uid |-> flags.Uid, gid |-> flags.Gid]

\* RealPath(reexec.Self()): the path of the running binary
SelfPath == <<"/proc/self/exe">>

\* user.Lookup: the one user of the password file
LookupUser(name) ==
    IF name = <<"daemon">> THEN [err |-> FALSE, Uid |-> 104, Gid |-> 104]
    ELSE NoValue

\* ParseOrLookupUser
ParseOrLookupUser(uid) ==
    IF Atoi(uid) >= 0 THEN [err |-> FALSE, Uid |-> Atoi(uid), Gid |-> 0]
    ELSE LookupUser(uid)

\* ParseOrLookupGroup: the group file has no group
ParseOrLookupGroup(gid) ==
    IF Atoi(gid) >= 0 THEN [err |-> FALSE, Gid |-> Atoi(gid)]
    ELSE NoValue

\* NewFlags in a process with the ids id
NewFlags(id) ==
    [err |-> FALSE, Fail |-> FALSE, Root |-> FALSE, Hostname |-> <<>>,
     Chdir |-> <<>>, Faketree |-> SelfPath, Perms |-> kDefaultPerms,
     Proc |-> FALSE, Wait |-> TRUE, Propagate |-> TRUE, TermOnWait |-> TRUE,
     Timeout |-> kDefaultTimeout, Uid |-> id.uid, Gid |-> id.gid,
     Mount |-> <<>>]

\* the flags of pflag that take no value, with the value they set
BoolFlags == {
    [tok |-> <<"--root">>, field |-> "Root", val |-> TRUE],
    [tok |-> <<"--fail">>, field |-> "Fail", val |-> TRUE],
    [tok |-> <<"--proc">>, field |-> "Proc", val |-> TRUE],
    [tok |-> <<"--wait=false">>, field |-> "Wait", val |-> FALSE],
    [tok |-> <<"--propagate=false">>, field |-> "Propagate", val |-> FALSE],
    [tok |-> <<"--wait-term=false">>, field |-> "TermOnWait", val |-> FALSE] }

\* the flags of pflag that take the next argument as their value
ValueFlags == {<<"--hostname">>, <<"--chdir">>, <<"--faketree">>, <<"--perms">>,
               <<"--uid">>, <<"--gid">>, <<"--wait-timeout">>, <<"--mount">>}

\* one value flag set: r holds the fields of Flags, the uid and gid
\* texts and the values of --mount
SetValue(r, tok, v) ==
    CASE tok = <<"--hostname">> -> [r EXCEPT !.Hostname = v]
      [] tok = <<"--chdir">> -> [r EXCEPT !.Chdir = v]
      [] tok = <<"--faketree">> -> [r EXCEPT !.Faketree = v]
      [] tok = <<"--perms">> ->
            IF ParseUint(v) < 0 THEN [r EXCEPT !.err = TRUE]
            ELSE [r EXCEPT !.Perms = ParseUint(v)]
      [] tok = <<"--wait-timeout">> ->
            IF ParseDuration(v) < 0 THEN [r EXCEPT !.err = TRUE]
            ELSE [r EXCEPT !.Timeout = ParseDuration(v)]
      [] tok = <<"--uid">> -> [r EXCEPT !.uid = v]
      [] tok = <<"--gid">> -> [r EXCEPT !.gid = v]
      [] tok = <<"--mount">> -> [r EXCEPT !.mounts = Append(@, v)]

\* fs.Parse(argv) of pflag from argument i on
RECURSIVE FlagSetParse(_, _, _)
FlagSetParse(argv, i, r) ==
    IF i > Len(argv) \/ r.err THEN r
    ELSE IF argv[i] = <<"--">> THEN r
    ELSE IF \E b \in BoolFlags : b.tok = argv[i]
    THEN LET b == CHOOSE b \in BoolFlags : b.tok = argv[i]
         IN  FlagSetParse(argv, i + 1, [r EXCEPT ![b.field] = b.val])
    ELSE IF argv[i] \in ValueFlags /\ i < Len(argv)
    THEN FlagSetParse(argv, i + 2, SetValue(r, argv[i], argv[i + 1]))
    ELSE [r EXCEPT !.err = TRUE]

\* the loop over the values of --mount in Flags.Parse
RECURSIVE NewMounts(_)
NewMounts(mounts) ==
    IF Len(mounts) = 0 THEN <<>>
    ELSE <<NewMountFlags(Head(mounts))>> \o NewMounts(Tail(mounts))

\* the fields of Flags
FlagFields == {"err", "Fail", "Root", "Hostname", "Chdir", "Faketree", "Perms",
               "Proc", "Wait", "Propagate", "TermOnWait", "Timeout", "Uid",
               "Gid", "Mount"}

\* mutant: --root does not keep the uid and the gid from being looked up
IdentityLooksUp(opts, r) ==
    LET u == IF r.uid # <<>> THEN ParseOrLookupUser(r.uid)
             ELSE [err |-> FALSE, Uid |-> opts.Uid, Gid |-> opts.Gid]
        g == IF r.gid # <<>> THEN ParseOrLookupGroup(r.gid)
             ELSE [err |-> FALSE, Gid |-> u.Gid]
    IN  IF u.err THEN NoValue
        ELSE IF g.err THEN NoValue
        ELSE IF r.Root THEN [err |-> FALSE, Uid |-> 0, Gid |-> 0]
        ELSE [err |-> FALSE, Uid |-> u.Uid, Gid |-> g.Gid]

\* the end of Flags.Parse: "if !opts.Root { uid, gid } else { 0, 0 }"
Identity(opts, r) ==
    LET u == IF r.uid # <<>> THEN ParseOrLookupUser(r.uid)
             ELSE [err |-> FALSE, Uid |-> opts.Uid, Gid |-> opts.Gid]
        g == IF r.gid # <<>> THEN ParseOrLookupGroup(r.gid)
             ELSE [err |-> FALSE, Gid |-> u.Gid]
    IN  IF r.Root THEN [err |-> FALSE, Uid |-> 0, Gid |-> 0]
        ELSE IF u.err THEN NoValue
        ELSE IF g.err THEN NoValue
        ELSE [err |-> FALSE, Uid |-> u.Uid, Gid |-> g.Gid]

\* Flags.Parse on the Flags object opts
FlagsParse(opts, argv) ==
    LET r == FlagSetParse(argv, 1,
                 [f \in FlagFields \cup {"uid", "gid", "mounts"} |->
                     CASE f = "uid" -> Itoa(opts.Uid)
                       [] f = "gid" -> Itoa(opts.Gid)
                       [] f = "mounts" -> <<>>
                       [] OTHER -> opts[f]])
        ms == NewMounts(r.mounts)
        id == Identity(opts, r)
        o == [f \in FlagFields |-> IF f = "Mount" THEN opts.Mount \o ms ELSE r[f]]
    IN  IF r.err THEN NoValue
        ELSE IF \E i \in 1..Len(ms) : ms[i].err THEN NoValue
        ELSE IF id.err THEN NoValue
        ELSE [o EXCEPT !.Uid = id.Uid, !.Gid = id.Gid]

\* the --mount arguments of Flags.Args
RECURSIVE MountArgs(_)
MountArgs(mounts) ==
    IF Len(mounts) = 0 THEN <<>>
    ELSE <<(<<"--mount">>), String(Head(mounts))>> \o MountArgs(Tail(mounts))

\* mutant: the uid and the gid are not handed on
IdArgsNone(opts) == <<>>
\* args := []string{"--uid", strconv.Itoa(opts.Uid), "--gid", ...}
IdArgs(opts) ==
    <<(<<"--uid">>), Itoa(opts.Uid), (<<"--gid">>), Itoa(opts.Gid)>>

\* Flags.Args
Args(opts) ==
    IdArgs(opts)
    \o (IF opts.Root THEN <<(<<"--root">>)>> ELSE <<>>)
    \o (IF opts.Fail THEN <<(<<"--fail">>)>> ELSE <<>>)
    \o (IF opts.Hostname # <<>> THEN <<(<<"--hostname">>), opts.Hostname>> ELSE <<>>)
    \o (IF opts.Chdir # <<>> THEN <<(<<"--chdir">>), opts.Chdir>> ELSE <<>>)
    \o (IF opts.Faketree # <<>> THEN <<(<<"--faketree">>), opts.Faketree>> ELSE <<>>)
    \o (IF opts.Perms # kDefaultPerms
        THEN <<(<<"--perms">>), Itoa(opts.Perms)>> ELSE <<>>)
    \o (IF opts.Proc THEN <<(<<"--proc">>)>> ELSE <<>>)
    \o (IF ~opts.Wait THEN <<(<<"--wait=false">>)>> ELSE <<>>)
    \o (IF ~opts.Propagate THEN <<(<<"--propagate=false">>)>> ELSE <<>>)
    \o (IF ~opts.TermOnWait THEN <<(<<"--wait-term=false">>)>> ELSE <<>>)
    \o (IF opts.Timeout # kDefaultTimeout
        THEN <<(<<"--wait-timeout">>), DurationString(opts.Timeout)>> ELSE <<>>)
    \o MountArgs(opts.Mount)

\* the arguments of NextCommand after the name of the stage
NextCommandArgs(opts, left) == Args(opts) \o <<(<<"--">>)>> \o left

\* the flags that the command lines of the inputs are made of
ArgKinds == {
    <<(<<"--uid">>), (<<"0">>)>>, <<(<<"--uid">>), (<<"daemon">>)>>,
    <<(<<"--uid">>), (<<"nobody">>)>>, <<(<<"--gid">>), (<<"5">>)>>,
    <<(<<"--root">>)>>, <<(<<"--fail">>)>>, <<(<<"--proc">>)>>,
    <<(<<"--hostname">>), (<<"host">>)>>, <<(<<"--chdir">>), (<<"/dir">>)>>,
    <<(<<"--faketree">>), (<<"/bin/faketree">>)>>,
    <<(<<"--faketree">>), (<<>>)>>,
    <<(<<"--perms">>), (<<"0700">>)>>,
    <<(<<"--wait=false">>)>>, <<(<<"--propagate=false">>)>>,
    <<(<<"--wait-term=false">>)>>,
    <<(<<"--wait-timeout">>), (<<"1s">>)>>, <<(<<"--wait-timeout">>), (<<"300s">>)>>,
    <<(<<"--mount">>), (<<"/src", ":", "/mnt">>)>>,
    <<(<<"--mount">>), (<<"/src", ":", "/mnt", ":", "ro", ",", "type=", "x">>)>>,
    <<(<<"--mount">>), (<<"/src", ":", "/mnt", ":", "bind", ",", "recursive", ",",
                         "private", ",", "type=", "x">>)>> }

\* the command lines of the inputs: up to MaxArgs flags, then the command
RECURSIVE Flatten(_)
Flatten(parts) == IF Len(parts) = 0 THEN <<>> ELSE Head(parts) \o Flatten(Tail(parts))

Command == <<(<<"--">>), (<<"true">>)>>
Argvs ==
    {Flatten(as) \o Command : as \in UNION {[1..n -> ArgKinds] : n \in 0..MaxArgs}}

\* fs.Args(): what follows the flags
RECURSIVE Left(_, _)
Left(argv, i) ==
    IF i > Len(argv) THEN <<>>
    ELSE IF argv[i] = <<"--">> THEN SubSeq(argv, i + 1, Len(argv))
    ELSE IF argv[i] \in ValueFlags THEN Left(argv, i + 2)
    ELSE Left(argv, i + 1)

ParseInit ==
    /\ \/ pkind = "mount" /\ pin \in MountTexts
       \/ pkind = "options" /\ pin \in OptionTexts
       \/ pkind = "argv" /\ pin \in Argvs
    /\ ppc = "start"
    /\ pv1 = NoValue
    /\ ptxt = <<>>
    /\ pv2 = NoValue

\* Flags.Parse calls NewMountFlags on a value of --mount
ParseMount ==
    /\ pkind = "mount" /\ ppc = "start"
    /\ pv1' = NewMountFlags(pin)
    /\ ppc' = "parsed"
    /\ UNCHANGED <<pkind, pin, ptxt, pv2>>
    /\ UNCHANGED <<runVars, setupVars>>

\* Flags.Args writes the mount with MountFlags.String
PrintMount ==
    /\ pkind = "mount" /\ ppc = "parsed" /\ ~pv1.err
    /\ ptxt' = String(pv1)
    /\ ppc' = "printed"
    /\ UNCHANGED <<pkind, pin, pv1, pv2>>
    /\ UNCHANGED <<runVars, setupVars>>

\* the next stage calls NewMountFlags on the text
ReparseMount ==
    /\ pkind = "mount" /\ ppc = "printed"
    /\ pv2' = NewMountFlags(ptxt)
    /\ ppc' = "reparsed"
    /\ UNCHANGED <<pkind, pin, pv1, ptxt>>
    /\ UNCHANGED <<runVars, setupVars>>

\* NewMountFlags calls KnownOptions.Parse on the options
ParseOptions ==
    /\ pkind = "options" /\ ppc = "start"
    /\ pv1' = Parse(pin)
    /\ ppc' = "parsed"
    /\ UNCHANGED <<pkind, pin, ptxt, pv2>>
    /\ UNCHANGED <<runVars, setupVars>>

\* enterSystem parses the command line of the caller into a fresh Flags
ParseArgv ==
    /\ pkind = "argv" /\ ppc = "start"
    /\ pv1' = FlagsParse(NewFlags(CallerId), pin)
    /\ ppc' = "parsed"
    /\ UNCHANGED <<pkind, pin, ptxt, pv2>>
    /\ UNCHANGED <<runVars, setupVars>>

\* enterSystem, and then enterPrivileges, builds the command line of the
\* next stage from its Flags and from what followed the flags
NextCommand ==
    /\ pkind = "argv"
    /\ \/ /\ ppc = "parsed" /\ ~pv1.err
          /\ ptxt' = NextCommandArgs(pv1, Left(pin, 1))
          /\ ppc' = "printed"
       \/ /\ ppc = "reparsed" /\ ~pv2.err
          /\ ptxt' = NextCommandArgs(pv2, Left(ptxt, 1))
          /\ ppc' = "printed2"
    /\ UNCHANGED <<pkind, pin, pv1, pv2>>
    /\ UNCHANGED <<runVars, setupVars>>

\* initializeSystem, and then initializePrivileges, parses that command
\* line into a fresh Flags
ReparseArgv ==
    /\ pkind = "argv"
    /\ \/ /\ ppc = "printed"
          /\ pv2' = FlagsParse(NewFlags(SystemId), ptxt)
          /\ ppc' = "reparsed"
       \/ /\ ppc = "printed2"
          /\ pv2' = FlagsParse(NewFlags(PrivilegesId(pv2)), ptxt)
          /\ ppc' = "reparsed2"
    /\ UNCHANGED <<pkind, pin, pv1, ptxt>>
    /\ UNCHANGED <<runVars, setupVars>>

ParseNext ==
    \/ ParseMount
    \/ PrintMount
    \/ ReparseMount
    \/ ParseOptions
    \/ ParseArgv
    \/ NextCommand
    \/ ReparseArgv

ParseSpecInit == RunIdle /\ SetupIdle /\ ParseInit
ParseSpec == ParseSpecInit /\ [][ParseNext]_vars

----------------------------------------------------------------------------
(* Specifications                                                          *)

Supervisor ==
    \/ \E s \in Sups : ReceiveSignals(s)
    \/ \E s \in Sups : StartChild(s)
    \/ \E s \in Sups : StartFails(s)
    \/ \E s \in Sups : CmdWait(s)
    \/ Wait4Block
    \/ TermSweep
    \/ StartTimer
    \/ Wait4NoHang

Forwarder ==
    \/ \E s \in Sups : ForwardRecv(s)
    \/ \E s \in Sups : ForwardKill(s)

\* the processes of the namespace fork and end
Processes ==
    \/ \E q \in NsPids, k \in GKinds : Fork(q, k)
    \/ \E p \in NsPids, K \in ExitCodes \cup GExitCodes : ProcExit(p, K)
    \/ \E N \in DeathSignals, core \in BOOLEAN : UserKilled(N, core)

Environment ==
    \/ \E sig \in Signals : EnvSignal(sig)
    \/ Processes

Next == Supervisor \/ Forwarder \/ TimerFires \/ Environment

\* wait4 fails with ECHILD alone
Spec == Init /\ [][Next]_vars

\* wait4 may fail with any error
NextErr == Next \/ Wait4Error
SpecErr == Init /\ [][NextErr]_vars

\* the case the comment of WaitChildren calls "(impossible?)": the direct
\* child ends and its zombie is discarded without any wait4 call of the loop
\* reporting it (SIGCHLD disposition SIG_IGN, or a waiter outside the loop)
DirectChildLost ==
    /\ pc["S1"] \in {"w_block", "w_nohang"}
    /\ proc[UPid].st = "zombie"
    /\ proc' = [proc EXCEPT ![UPid] = Gone]
    /\ UNCHANGED auxVars
    /\ UNCHANGED <<cfg, ustatus, reaped, nsig>>
    /\ UNCHANGED supVars
    /\ UNCHANGED loopVars

\* wait4 fails with ECHILD alone, and the direct child may be lost
NextLost == Next \/ DirectChildLost
\* (WaitChildren runs only with -wait, decided before anything is started)
LostInit == Init /\ cfg.wait
SpecLost == LostInit /\ [][NextLost]_vars

\* the main activity of S1 keeps running while it has a step to take (a
\* blocking wait4 returns once a child can be reaped or none is left), and a
\* started timer goroutine fires while the process lives
Fairness ==
    /\ WF_vars(Wait4Block)
    /\ WF_vars(TermSweep)
    /\ WF_vars(StartTimer)
    /\ WF_vars(Wait4NoHang)
    /\ WF_vars(TimerFires)
\* the configurations in which the subreaper loop runs and sweeps (-wait and
\* -term-on-wait are decided by the flags, before anything is started)
LiveInit == Init /\ cfg.wait /\ cfg.tow
LiveSpec == LiveInit /\ [][Next]_vars /\ Fairness

\* the subreaper loop on its own: -wait without -propagate (no subscription,
\* no forwarder), with every sign of -wait-timeout, which pflag's DurationVar
\* takes as a signed duration ("-1s")
SignedTimeouts == Timeouts \cup {-1}
LoopConfigs == [wait : {TRUE}, propagate : {FALSE}, tow : BOOLEAN,
                timeout : SignedTimeouts]
LoopInit == RunFrom(LoopConfigs) /\ SetupIdle /\ ParseIdle
NextLoop == Supervisor \/ TimerFires \/ Processes
LoopSpec == LoopInit /\ [][NextLoop]_vars

----------------------------------------------------------------------------
(* Claims                                                                  *)

Done(s) == pc[s] = "done"
UReaped == UPid \in reaped
\* the user command has ended by exit(K) for some K
UExited == ustatus >= 0 /\ Exited(ustatus)
\* the user command was ended by a signal
UKilled == ustatus >= 0 /\ Signaled(ustatus)
\* positions of the subreaper loop
LoopPcs == {"w_block", "w_term", "w_timer", "w_nohang"}
Wait4Pcs == {"w_block", "w_nohang"}

\* exit code K of the user command, carried through WaitChildren and exit in
\* S1 and through cmd.Wait and exit in S0
CarriedByS1(K) == OsExit(ExitArg(childerr(Errno("ECHILD"), Remember(WExited(K)))))
CarriedByS0(w) == OsExit(ExitArg(CmdWaitErr(w)))
AllCodesCarried ==
    \A K \in 0 .. 255 :
        CarriedByS1(K) = WExited(K) /\ CarriedByS0(WExited(K)) = WExited(K)

\* C1: with wait=true, once the user command has exited normally with code K,
\* the S1 supervisor ends with exit code K and so does the S0 launcher,
\* whichever other processes the loop reaped before or after it; and for
\* every K in 0..255 the chain Remember, childerr, exit, cmd.Wait, exit
\* carries K unchanged.
C1_ExitCodePropagated ==
    /\ (cfg.wait /\ UExited) =>
          /\ Done("S1") => wst["S1"] = ustatus
          /\ Done("S0") => wst["S0"] = ustatus
    /\ AllCodesCarried

\* C1 witness: the launcher has ended with the user command's code 255 after
\* the loop reaped another process as well
C1_Witness ==
    /\ cfg.wait /\ Done("S0") /\ Done("S1")
    /\ ustatus = WExited(255) /\ wst["S0"] = WExited(255)
    /\ Cardinality(reaped) >= 2

\* C2: when the user command is ended by signal N, S1 and then S0 end with
\* exit code 128+N, for wait=true and for wait=false.
C2_SignalDeathIs128PlusN ==
    (UKilled /\ UReaped) =>
        /\ Done("S1") => wst["S1"] = WExited(128 + TermSignal(ustatus))
        /\ Done("S0") => wst["S0"] = WExited(128 + TermSignal(ustatus))

\* C3: with wait=true the supervisor leaves the subreaper loop only at a
\* wait4 call that fails, and when every failure was ECHILD no process of the
\* namespace is alive or unreaped once the supervisor has ended.
C3_LeaveOnlyOnFailure ==
    (pc["S1"] \in LoopPcs /\ pc'["S1"] = "done") =>
        /\ pc["S1"] \in Wait4Pcs
        /\ Children(proc, S1Pid) = {} \/ (hardErr' /\ ~hardErr)

C3_NoneLeft == (cfg.wait /\ Done("S1") /\ ~hardErr) => Live(proc) = {}

C3_WaitsForAll == [][C3_LeaveOnlyOnFailure]_vars /\ []C3_NoneLeft

\* C3 witness: the supervisor has ended on ECHILD after reaping the user
\* command and a process reparented to it
C3_Witness ==
    /\ cfg.wait /\ Done("S1") /\ ~hardErr
    /\ ret["S1"].t = "ExitStatus"
    /\ Cardinality(reaped) >= 2

\* the exit status that stands for wait status w: the exit code, or 128+N
ShellStatus(w) == IF Exited(w) THEN w ELSE WExited(128 + TermSignal(w))

\* C4: with wait=false S1 reaps the direct child alone and, once that child
\* has ended, ends with the child's status, also while other processes live.
C4_DirectChildAlone ==
    (~cfg.wait /\ Done("S1") /\ UReaped) =>
        /\ reaped = {UPid}
        /\ wst["S1"] = ShellStatus(ustatus)

\* the exit status of the supervisor that stands for the result WaitChildren
\* remembers for wait status w: the exit code, or the raw status of a
\* signal death
RememberedStatus(w) == IF Exited(w) THEN w ELSE WExited(w)

\* the direct child has just been reaped while a process that ignores
\* SIGTERM and runs until killed is alive
C5_StubbornLeft ==
    /\ cfg.wait /\ cfg.tow /\ cfg.timeout > 0
    /\ pc["S1"] = "w_term"
    /\ \E g \in Alive(proc) : proc[g].kind = "stubborn"

C5_SweptAndExited ==
    /\ killCount > 0
    /\ Live(proc) = {}
    /\ Done("S1")
    /\ wst["S1"] = RememberedStatus(ustatus)

\* C5: with wait=true, termOnWait=true and timeout>0, if a process that
\* ignores SIGTERM is alive when the direct child is reaped, then eventually
\* kill(-1, SIGKILL) has been issued, every process has been reaped and the
\* supervisor has ended with the direct child's status.
C5_TerminationSweep == C5_StubbornLeft ~> C5_SweptAndExited

\* C5 witness: after the direct child was reaped and SIGTERM was swept, the
\* timer's SIGKILL has ended a process that ignored it
C5_Witness ==
    /\ cfg.wait /\ cfg.tow /\ cfg.timeout > 0
    /\ UReaped /\ termCount = 1 /\ killCount = 1
    /\ \E g \in NsPids :
          /\ proc[g].st = "zombie"
          /\ proc[g].kind = "stubborn"
          /\ proc[g].status = WSignaled(SIGKILL, FALSE)

\* C6: with timeout=0 no SIGKILL timer is started and no kill(-1, SIGKILL)
\* is issued; the supervisor ends only when no process is left.
C6_NoKillWithoutTimeout ==
    cfg.timeout = 0 =>
        /\ timers = 0
        /\ killCount = 0
        /\ (cfg.wait /\ Done("S1")) => Live(proc) = {}

\* C6 witness: timeout=0, the user command is reaped and the supervisor is
\* in the blocking wait4 with a process that ignores SIGTERM still alive
C6_Witness ==
    /\ cfg.timeout = 0 /\ cfg.wait /\ cfg.tow
    /\ UReaped /\ termCount = 1
    /\ pc["S1"] = "w_block"
    /\ \E g \in Alive(proc) : proc[g].kind = "stubborn"

\* the sweeps the loop owes after the direct child was reaped
TermsDue == IF cfg.tow THEN 1 ELSE 0
TimersDue == IF cfg.timeout > 0 THEN 1 ELSE 0

\* C7: no sweep and no timer before the direct child is reaped; at that reap
\* the SIGTERM sweep (if termOnWait) comes before the timer is started, both
\* come before the next wait4 call, and SIGKILL is sent only by a timer
\* started at that reap.
C7_SweepOrder ==
    /\ (termCount > 0 \/ timers > 0 \/ killCount > 0) => UReaped
    /\ pc["S1"] = "w_term" => (termCount = 0 /\ timers = 0 /\ killCount = 0)
    /\ pc["S1"] = "w_timer" => (termCount = TermsDue /\ timers = 0 /\ killCount = 0)
    /\ (pc["S1"] \in Wait4Pcs /\ UReaped) =>
          (termCount = TermsDue /\ timers + killCount = TimersDue)
    /\ killCount <= TimersDue

\* C7 witness: both sweeps were issued
C7_Witness == termCount = 1 /\ killCount = 1 /\ UReaped

\* the ids of a sequence of signal records
Ids(q) == [i \in 1 .. Len(q) |-> q[i].id]
\* the signal PropagateSignals holds between its receive and its kill
Holding(s) == IF fpc[s] = "kill" THEN <<held[s]>> ELSE <<>>
\* position of id in the sequence of received ids (0: not received)
Pos(q, id) == IF \E i \in 1 .. Len(q) : q[i] = id
              THEN CHOOSE i \in 1 .. Len(q) : q[i] = id
              ELSE 0

C9_NoSignalLost ==
    \A s \in Sups : rcvd[s] = Ids(sent[s] \o Holding(s) \o chan[s])

\* C10: the forwarder sends the signals one at a time in the order in which
\* the supervisor received them: what was sent, then what is held, then
\* what waits in the channel are received signals in strictly rising order
\* of reception.
C10_ForwardedInOrder ==
    \A s \in Sups :
        LET q == Ids(sent[s] \o Holding(s) \o chan[s]) IN
        /\ Len(Holding(s)) <= 1
        /\ \A i \in 1 .. Len(q) : Pos(rcvd[s], q[i]) > 0
        /\ \A i, j \in 1 .. Len(q) :
              i < j => Pos(rcvd[s], q[i]) < Pos(rcvd[s], q[j])

\* C10 witness: S1 has forwarded two signals
C10_Witness == Len(sent["S1"]) >= 2 /\ Len(sent["S0"]) >= 2

\* C11: once the direct child was started and reaped by the subreaper loop,
\* the supervisor ends with the status remembered for that child, whatever
\* the wait4 calls made after the reap return (ECHILD or any other error).
C11_ChildStatusAlways ==
    (cfg.wait /\ UReaped /\ Done("S1")) => wst["S1"] = RememberedStatus(ustatus)

\* S1 has left WaitChildren without ever reaping the direct child it started
LeftWithoutChild ==
    /\ cfg.wait /\ Done("S1")
    /\ proc[UPid].st # "none"
    /\ ~UReaped

\* C12: when wait4 reports ECHILD and the direct child's pid was never
\* reaped, WaitChildren returns the ECHILD error, not an exit status, and the
\* supervisor ends with the launcher error code 125.
C12_WaitAnomaly ==
    LeftWithoutChild =>
        /\ ret["S1"] = Errno("ECHILD")
        /\ wst["S1"] = WExited(kDefaultExit)

\* C12 witness: the supervisor ended with 125 after the direct child was
\* lost, and the loop had reaped another process
C12_Witness ==
    /\ LeftWithoutChild
    /\ proc[UPid].st = "gone"
    /\ reaped # {}
    /\ wst["S1"] = WExited(kDefaultExit)

\* a step of a supervisor itself failed: cmd.Start, or a wait4 call that
\* left WaitChildren without the status of the direct child
LauncherFailed ==
    \E s \in Sups : ret[s].t \in {"start", "ECHILD", "EINTR"}

\* C26 as claimed: a supervisor ends with 125 only when a step of the
\* launcher failed, never with the status of the user command.
C26_ReservedForLauncher ==
    \A s \in Sups :
        (Done(s) /\ wst[s] = WExited(kDefaultExit)) => LauncherFailed

\* C26 amended: a supervisor ends with 125 only when a step of the launcher
\* failed or the user command itself called exit(125).
C26_LauncherOrCommand ==
    \A s \in Sups :
        (Done(s) /\ wst[s] = WExited(kDefaultExit)) =>
            (LauncherFailed \/ ustatus = WExited(kDefaultExit))

\* the launcher ended with 125 and no step of it had failed: the user
\* command had called exit(125)
C26_Witness ==
    /\ Done("S0") /\ wst["S0"] = WExited(kDefaultExit)
    /\ ~LauncherFailed
    /\ ustatus = WExited(kDefaultExit)

\* C27 as claimed: with termOnWait the S1 supervisor has sent the SIGTERM
\* sweep once the direct child has ended and been reaped, whatever wait,
\* propagate and timeout are; without termOnWait it never sends it.
C27_TermOnWait ==
    /\ (cfg.tow /\ UReaped /\ pc["S1"] # "w_term") => termCount = 1
    /\ ~cfg.tow => termCount = 0

\* C27 amended: the sweep belongs to WaitChildren.  With wait and
\* termOnWait the S1 supervisor sends kill(-1, SIGTERM) once, right after it
\* has reaped the direct child and not before; without wait or without
\* termOnWait it never sends it.
C27_TermOnWaitWhenWaiting ==
    /\ (cfg.wait /\ cfg.tow /\ UReaped /\ pc["S1"] # "w_term") => termCount = 1
    /\ (cfg.wait /\ cfg.tow /\ (~UReaped \/ pc["S1"] = "w_term")) => termCount = 0
    /\ (~cfg.wait \/ ~cfg.tow) => termCount = 0

\* the sweep has ended a process other than the user command, with no
\* forwarder and no timer at work
C27_Witness ==
    /\ cfg.wait /\ cfg.tow /\ ~cfg.propagate /\ cfg.timeout = 0
    /\ termCount = 1
    /\ \E p \in NsPids \ {UPid} :
          proc[p].st = "zombie" /\ proc[p].status = WSignaled(SIGTERM, FALSE)

\* the ids of the signals a subscription has received
RcvdIds(s) == {rcvd[s][i] : i \in 1 .. Len(rcvd[s])}

C29_HeldUntilForwarder ==
    \A s \in Sups :
        /\ (Propagate(s) /\ pc[s] = "start") => sub[s] = Subscription
        /\ pc[s] \in {"idle", "recv", "start"} =>
              /\ fpc[s] = "off"
              /\ sent[s] = <<>>
              /\ rcvd[s] = Ids(chan[s])
        /\ fpc[s] # "off" => fpid[s] = ForwardPid(PidOverride(s), ChildPid(s))

\* C30: no supervisor forwards SIGCHLD, which is not part of a
\* subscription; without propagate a supervisor has no subscription and no
\* forwarder and sends no signal.
C30_ForwardedSet ==
    \A s \in Sups :
        /\ SIGCHLD \notin sub[s]
        /\ \A i \in 1 .. Len(sent[s]) : sent[s][i].sig # SIGCHLD
        /\ \A i \in 1 .. Len(chan[s]) : chan[s][i].sig # SIGCHLD
        /\ fpc[s] = "kill" => held[s].sig # SIGCHLD
        /\ ~cfg.propagate =>
              sub[s] = {} /\ fpc[s] = "off" /\ chan[s] = <<>> /\ sent[s] = <<>>

\* the launcher was sent a SIGCHLD, which it did not receive, and another
\* signal, which both supervisors have forwarded
C30_Witness ==
    /\ cfg.propagate
    /\ nsig > Len(rcvd["S0"])
    /\ Len(sent["S0"]) > 0 /\ Len(sent["S1"]) > 0

\* this step is a wait4 call of the loop that returns pid z
Returns(z) == pc["S1"] \in Wait4Pcs /\ z \notin reaped /\ z \in reaped'

\* this step is a WNOHANG call that returns pid 0
ReturnsZero ==
    /\ pc["S1"] = "w_nohang"
    /\ Zombies(proc, S1Pid) = {} /\ Children(proc, S1Pid) # {}
    /\ reaped' = reaped /\ proc' = proc

C31_Step ==
    \* a blocking call is the first call of the loop or follows a pid 0
    /\ (pc'["S1"] = "w_block" /\ pc["S1"] # "w_block") =>
          (pc["S1"] = "start" \/ ReturnsZero)
    \* a returned pid is compared with the direct child's and the next call
    \* is a WNOHANG one, after the sweeps if the pid is the direct child's
    /\ \A z \in NsPids : Returns(z) =>
          /\ pc'["S1"] = IF z = ChildPid("S1") THEN "w_term" ELSE "w_nohang"
          /\ perr' = IF z = ChildPid("S1") THEN Remember(proc[z].status) ELSE perr
    /\ (pc["S1"] = "w_term" /\ pc'["S1"] # "w_term") => pc'["S1"] = "w_timer"
    /\ (pc["S1"] = "w_timer" /\ pc'["S1"] # "w_timer") => pc'["S1"] = "w_nohang"
    \* a WNOHANG call goes on draining, returns pid 0, or fails and ends the loop
    /\ (pc["S1"] = "w_nohang" /\ pc'["S1"] # "w_nohang") =>
          \/ \E z \in NsPids : Returns(z)
          \/ ReturnsZero /\ pc'["S1"] = "w_block"
          \/ Children(proc, S1Pid) = {} /\ pc'["S1"] = "done"

\* C31: after a wait4 call returned a pid the loop goes on with WNOHANG calls
\* until one returns pid 0 or fails; a blocking call follows a pid 0 only;
\* the pid returned by either kind of call is compared with the direct
\* child's, so the direct child is recognised when a WNOHANG call reaps it.
C31_DrainBeforeBlocking == [][C31_Step]_vars

\* C31 witness: the direct child has just been recognised at a WNOHANG call:
\* the only other process there ever was, a child of the direct child that
\* came to pid 1 when the direct child ended, was reaped by the blocking call
C31_Witness ==
    /\ pc["S1"] = "w_term"
    /\ perr = Remember(ustatus)
    /\ \E g \in NsPids \ {UPid} :
          /\ reaped = {g, UPid}
          /\ \A p \in NsPids \ {g, UPid} : proc[p].st = "none"

\* C32: once the direct child is reaped and its sweeps are done, a SIGKILL
\* timer has been started if and only if timeout > 0, and with a timeout that
\* is not greater than 0 kill(-1, SIGKILL) is never issued.
C32_TimerIffPositive ==
    /\ (pc["S1"] \in Wait4Pcs /\ UReaped) =>
          (timers + killCount = IF cfg.timeout > 0 THEN 1 ELSE 0)
    /\ cfg.timeout <= 0 => (timers = 0 /\ killCount = 0)

C39_Step ==
    \* the branch of the direct child is entered at the one wait4 call that
    \* returns its pid, with nothing remembered yet
    /\ (pc'["S1"] = "w_term" /\ pc["S1"] # "w_term") =>
          /\ Returns(ChildPid("S1"))
          /\ perr = Errno("ECHILD")
          /\ termCount = 0 /\ timers = 0 /\ killCount = 0
    \* the remembered result, the SIGTERM sweep and the timer belong to it
    /\ perr' # perr => (pc["S1"] \in Wait4Pcs /\ pc'["S1"] = "w_term")
    /\ termCount' # termCount => (pc["S1"] = "w_term" /\ termCount' = 1)
    /\ timers' > timers => (pc["S1"] = "w_timer" /\ timers' = 1 /\ killCount = 0)

C39_Once ==
    /\ termCount <= 1
    /\ timers + killCount <= 1
    /\ perr = IF UReaped THEN Remember(ustatus) ELSE Errno("ECHILD")

\* C39: pids are not used twice in the model, so no process reaped later has
\* the pid of the direct child; then the remembered result is set once, at
\* the reap of the direct child, kill(-1, SIGTERM) is issued at most once and
\* at most one SIGKILL timer is started.
C39_SweepsOnce == [][C39_Step]_vars /\ []C39_Once

\* C39 witness: after the direct child was reaped and both sweeps were
\* issued the loop is at a wait4 call that returns the pid of a process the
\* SIGKILL sweep ended
C39_Witness ==
    /\ UReaped /\ pc["S1"] \in Wait4Pcs
    /\ termCount = 1 /\ killCount = 1
    /\ \E g \in Zombies(proc, S1Pid) : proc[g].status = WSignaled(SIGKILL, FALSE)

----------------------------------------------------------------------------
(* Claims about the stages                                                 *)

\* positions in slog of the operations op of process p
At(p, op) == {k \in 1 .. Len(slog) : slog[k].p = p /\ slog[k].op = op}
\* operations of one user mount, and of the mount phase of initializeSystem
UserMountOps == {"normalize", "skip", "mktarget", "mount"}
MountPhaseOps == UserMountOps \cup {"sethostname", "automount"}
AtAny(p, ops) == {k \in 1 .. Len(slog) : slog[k].p = p /\ slog[k].op \in ops}
\* the operations of process p, in order
OpsOf(p) ==
    LET IsP(e) == e.p = p
        es == SelectSeq(slog, IsP) IN
    [k \in 1 .. Len(es) |-> es[k].op]
\* the processes that entered initializeSystem
S1s == {p \in 1 .. Len(chain) :
          chain[p].argv0 = "initialize-system" /\ chain[p].fn # "main"}
\* the successful start of the next stage by process p
StartedNext(p) == {k \in At(p, "start") : slog[k].ok}

\* what initializePrivileges does before the user command runs
PrivilegeSteps ==
    <<"parse", "setuid", "setgid">>
        \o (IF sflags.chdir THEN <<"chdir">> ELSE <<>>) \o <<"exec">>

\* the stage is selected by argv[0] alone
C13_Selected(p) ==
    LET a == chain[p].argv0
        f == chain[p].fn IN
    f # "main" =>
        /\ a = "initialize-system" => f = "initializeSystem"
        /\ a = "initialize-privileges" => f \in {"initializePrivileges", "user command"}
        /\ a \notin {"initialize-system", "initialize-privileges"} => f = "enterSystem"
\* a process is started by the stage before its own
C13_StartedBy(p) ==
    p > 1 =>
        \/ /\ chain[p].argv0 = "initialize-system"
           /\ chain[p].by = "enterSystem"
           /\ chain[p - 1].argv0 \notin {"initialize-system", "initialize-privileges"}
        \/ /\ chain[p].argv0 = "initialize-privileges"
           /\ chain[p].by = "initializeSystem"
           /\ chain[p - 1].argv0 = "initialize-system"
\* S2 is started when the loop over the mounts and the /proc mount are over
C13_AfterMounts(p) ==
    \A k \in StartedNext(p) :
        /\ mi > Len(sflags.mount)
        /\ \A j \in AtAny(p, MountPhaseOps) : j < k
\* the user command is what a process that ran initializePrivileges became
C13_AfterPrivileges(p) ==
    chain[p].fn = "user command" =>
        /\ chain[p].argv0 = "initialize-privileges"
        /\ OpsOf(p) = PrivilegeSteps

\* C13: argv[0] alone selects the function a process runs; S1 is started
\* only by S0, S2 only by S1 once the mount phase is over, the user command
\* is exec'd only by S2 after setuid, setgid and (with --chdir) chdir, in
\* that order; no stage starts an earlier stage or itself.
C13_StageMachine ==
    \A p \in 1 .. Len(chain) :
        /\ C13_Selected(p)
        /\ C13_StartedBy(p)
        /\ p \in S1s => C13_AfterMounts(p)
        /\ C13_AfterPrivileges(p)

\* C13 witness: a run from S0 to the user command with two mounts and
\* --chdir
C13_Witness ==
    /\ Len(chain) = 3
    /\ chain[1].argv0 = "faketree"
    /\ chain[3].fn = "user command"
    /\ Len(sflags.mount) = 2
    /\ sflags.chdir

\* the mounts process p took up, in order
Taken(p) ==
    LET IsN(e) == e.p = p /\ e.op = "normalize"
        es == SelectSeq(slog, IsN) IN
    [k \in 1 .. Len(es) |-> es[k].i]

\* C14: initializeSystem takes up the user mounts one at a time in the order
\* of the --mount flags, finishing each before the next; with proc=false the
\* automatic /proc mount is attempted after the last user mount and before
\* S2 is started.
C14_MountOrder ==
    \A p \in S1s :
        /\ Taken(p) = [k \in 1 .. Len(Taken(p)) |-> k]
        /\ \A j, k \in AtAny(p, UserMountOps) : j < k => slog[j].i <= slog[k].i
        /\ \A k \in At(p, "automount") :
              /\ Len(Taken(p)) = Len(sflags.mount)
              /\ \A j \in AtAny(p, UserMountOps) : j < k
              /\ \A j \in At(p, "start") : k < j
        /\ (At(p, "start") # {} /\ ~sflags.proc) => At(p, "automount") # {}
        /\ At(p, "start") # {} => Len(Taken(p)) = Len(sflags.mount)

\* C14 witness: two user mounts were mounted, then /proc, then S2 started
C14_Witness ==
    \E p \in S1s :
        /\ ~sflags.proc
        /\ Cardinality(At(p, "mount")) = 2
        /\ At(p, "automount") # {}
        /\ StartedNext(p) # {}

\* C15: with proc=false (either value of fail) a user mount whose target is
\* /proc is dropped without being mounted, the other user mounts are still
\* processed and the automatic /proc mount follows; with proc=true there is
\* no automatic /proc mount and no user mount is dropped.
C15_ProcGuard ==
    \A p \in S1s :
        /\ ~sflags.proc =>
              /\ \A k \in AtAny(p, {"mktarget", "mount"}) :
                    ~IsProcTarget(sflags.mount[slog[k].i].target)
              /\ \A k \in At(p, "skip") : ~(k = Len(slog) /\ spc = "exit")
        /\ sflags.proc => (At(p, "automount") = {} /\ At(p, "skip") = {})

\* the setup operations of process p that failed
FailedAt(p, ops) == {k \in AtAny(p, ops) : ~slog[k].ok}

\* C16: with fail=false no failure of sethostname, of Normalize, of
\* MakeTarget, of a mount or of the /proc mount ends initializeSystem: it
\* ends only on a flags error or when S2 cannot be started, and S2 is
\* started after every user mount was taken up in order.
C16_ContinueOnError ==
    ~sflags.fail =>
        \A p \in S1s :
            /\ (Me = p /\ spc = "exit") => slog[Len(slog)].op \in {"parse", "start"}
            /\ spc = "privileges" \/ At(p, "start") # {} =>
                  Taken(p) = [k \in 1 .. Len(sflags.mount) |-> k]

\* C16 witness: S2 was started after sethostname, a Normalize, a MakeTarget,
\* a mount and the /proc mount had failed
C16_Witness ==
    /\ ~sflags.fail
    /\ \E p \in S1s :
          /\ StartedNext(p) # {}
          /\ \A op \in {"sethostname", "normalize", "mktarget", "mount", "automount"} :
                FailedAt(p, {op}) # {}

\* a failed operation ends the process at once with exit code 125
C17_Fatal(k) ==
    /\ k = Len(slog)
    /\ spc = "exit"
    /\ sexit = kDefaultExit

\* C17: with fail=true every failure of sethostname, of Normalize, of
\* MakeTarget, of a mount or of the /proc mount ends initializeSystem with
\* exit code 125 before a later mount is attempted and before S2 is started
\* (a failed MakeTarget is followed by the mount of that one target only).
C17_FailFast ==
    sflags.fail =>
        \A p \in S1s :
            /\ \A k \in FailedAt(p, {"sethostname", "normalize", "mount", "automount"}) :
                  C17_Fatal(k)
            /\ \A k \in FailedAt(p, {"mktarget"}) :
                  k < Len(slog) => C17_Fatal(k + 1)

\* C17 amended: with fail=true a failure of sethostname, of Normalize, of a
\* mount or of the /proc mount ends initializeSystem with exit code 125
\* before anything else is attempted; a failure of MakeTarget ends it only
\* when the mount of that target fails as well.
C17_FailFastOnMount ==
    sflags.fail =>
        \A p \in S1s :
            /\ \A k \in FailedAt(p, {"sethostname", "normalize", "mount", "automount"}) :
                  C17_Fatal(k)
            /\ \A k \in FailedAt(p, {"mktarget"}) :
                  (k < Len(slog) /\ ~slog[k + 1].ok) => C17_Fatal(k + 1)
            /\ \A k \in FailedAt(p, {"mktarget"}) :
                  k < Len(slog) => (slog[k + 1].op = "mount" /\ slog[k + 1].i = slog[k].i)

\* C17 witness: the first of two mounts failed after its MakeTarget had
\* failed, and initializeSystem ended with 125
C17_Witness ==
    /\ sflags.fail
    /\ Len(sflags.mount) = 2
    /\ spc = "exit" /\ sexit = kDefaultExit
    /\ \E p \in S1s :
          /\ Me = p
          /\ FailedAt(p, {"mktarget"}) # {}
          /\ \E k \in FailedAt(p, {"mount"}) : slog[k].i = 1

\* the newest process has ended with the launcher's code at operation k,
\* which failed, and was not turned into the user command
EndedAt(k) ==
    /\ ~slog[k].ok
    /\ k = Len(slog)
    /\ slog[k].p = Me
    /\ spc = "exit" /\ sexit = kDefaultExit
    /\ Fn # "user command"

\* C24: a process whose flags.Parse fails exits with 125; it has made no
\* other call (no sethostname, no mount, no setuid or chdir), has started
\* no process and has not exec'd the user command.
C24_ParseErrorsStay ==
    \A k \in 1 .. Len(slog) :
        (slog[k].op = "parse" /\ ~slog[k].ok) =>
            /\ EndedAt(k)
            /\ \A j \in 1 .. Len(slog) : slog[j].p = slog[k].p => j = k

\* the parse of initializeSystem failed, with a hostname and a mount to set up
C24_Witness ==
    /\ Len(slog) > 0
    /\ slog[Len(slog)].op = "parse" /\ ~slog[Len(slog)].ok
    /\ Fn = "initializeSystem"
    /\ sflags.hostname /\ Len(sflags.mount) > 0
    /\ spc = "exit"

\* C25: in initializePrivileges a chdir that fails ends the process with
\* 125 whatever --fail says, and the user command is not exec'd; a setuid or
\* setgid that fails ends the process with 125 under --fail, and without
\* --fail the process goes on with the next step.
C25_PrivilegeErrors ==
    \A k \in 1 .. Len(slog) :
        /\ (slog[k].op = "chdir" /\ ~slog[k].ok) => EndedAt(k)
        /\ (slog[k].op \in {"setuid", "setgid"} /\ ~slog[k].ok) =>
              IF sflags.fail THEN EndedAt(k)
              ELSE /\ k = Len(slog) =>
                        /\ sexit = -1
                        /\ spc \in (IF slog[k].op = "setuid" THEN {"setgid"}
                                    ELSE IF sflags.chdir THEN {"chdir"}
                                    ELSE {"chdir", "exec"})
                   /\ k < Len(slog) =>
                        slog[k + 1].op = (IF slog[k].op = "setuid" THEN "setgid"
                                          ELSE IF sflags.chdir THEN "chdir"
                                          ELSE "exec")

\* without --fail the user command was exec'd although setuid and setgid
\* had failed
C25_Witness ==
    /\ ~sflags.fail
    /\ \E k \in 1 .. Len(slog) : slog[k].op = "setuid" /\ ~slog[k].ok
    /\ \E k \in 1 .. Len(slog) : slog[k].op = "setgid" /\ ~slog[k].ok
    /\ Fn = "user command"

\* the failed mounts of process p whose target could not be created either
BothFailed(p) ==
    {k \in FailedAt(p, {"mount"}) :
        \E j \in FailedAt(p, {"mktarget"}) : slog[j].i = slog[k].i}

\* C33: when target creation and the mount fail for one user mount, both
\* errors are reported, the one of the target first, whatever --fail says.
C33_BothReported ==
    \A p \in S1s : \A k \in BothFailed(p) :
        slog[k].said = <<"Could not create mount target", "Could not mount">>

\* the operations of process p on its mount number i
OnMount(p, i, ops) == {k \in AtAny(p, ops) : slog[k].i = i}

C34_Skipped(p) ==
    \A k \in FailedAt(p, {"normalize"}) :
        /\ sflags.mount[slog[k].i].source # ""
        /\ OnMount(p, slog[k].i, {"skip", "mktarget", "mount"}) = {}
        /\ sflags.fail <=> (k = Len(slog) /\ spc = "exit")

C34_Copy ==
    spc \in {"guard", "mktarget", "mount"} =>
        LET m == sflags.mount[mi] IN
        /\ cur.flags = m.flags /\ cur.fstype = m.fstype /\ cur.data = m.data
        /\ cur.target \in {m.target, RealPathOf(m.target)}
        /\ cur.source = IF m.source = "" THEN "" ELSE RealPathOf(m.source)

\* C34: Normalize fails only for a source that is not empty and does not
\* resolve, and then S1 neither creates the target nor mounts (it goes on
\* with the next mount, or exits with --fail); a target that does not
\* resolve is used as it was given; the mount S1 works on has the flags,
\* fstype and data of the --mount flag, which Normalize leaves as it was.
C34_Normalization ==
    /\ [](\A p \in S1s : C34_Skipped(p))
    /\ []C34_Copy
    /\ [][sflags' = sflags]_vars

\* C34 witness: the first mount was skipped because its source did not
\* resolve, and the second is at its mount call with a target that did not
\* resolve
C34_Witness ==
    /\ \E p \in S1s : FailedAt(p, {"normalize"}) # {}
    /\ spc = "mount"
    /\ cur.target = "/mnt/" /\ cur.fstype = "tmpfs"

\* the entry name=value is in the environment
HasEnv(env, name, value) == \E i \in 1 .. Len(env) : env[i] = <<name, value>>
\* the environment has an entry for the name
Names(env) == {env[i][1] : i \in 1 .. Len(env)}

\* a run from S0 to the user command
FullRun ==
    /\ Len(chain) = 3
    /\ chain[1].argv0 = "faketree"
    /\ chain[3].fn = "user command"

\* C37 as stated: the environment of the command has HOSTNAME whenever
\* --hostname is given, PWD whenever --chdir is given, and FAKETREE=true.
C37_Environment ==
    FullRun =>
        /\ sflags.hostname => HasEnv(chain[3].env, "HOSTNAME", HostnameFlag)
        /\ sflags.chdir => HasEnv(chain[3].env, "PWD", ChdirFlag)
        /\ HasEnv(chain[3].env, "FAKETREE", "true")

\* sethostname was called by a process of the run and succeeded
HostnameWasSet == \E k \in 1 .. Len(slog) : slog[k].op = "sethostname" /\ slog[k].ok

\* C37: the environment of the command has FAKETREE=true, PWD equal to
\* --chdir whenever --chdir is given, and HOSTNAME equal to --hostname when
\* sethostname succeeded; no HOSTNAME is written when sethostname failed or
\* --hostname is not given.
C37_EnvironmentWritten ==
    \A p \in 1 .. Len(chain) :
        /\ "HOSTNAME" \in Names(chain[p].env) <=>
              (HostnameWasSet /\ (p > 1 \/ chain[1].argv0 = "initialize-system"))
        /\ "HOSTNAME" \in Names(chain[p].env) =>
              HasEnv(chain[p].env, "HOSTNAME", HostnameFlag)
        /\ chain[p].fn = "user command" =>
              /\ HasEnv(chain[p].env, "FAKETREE", "true")
              /\ sflags.chdir <=> HasEnv(chain[p].env, "PWD", ChdirFlag)
              /\ sflags.chdir <=> "PWD" \in Names(chain[p].env)

\* C37 witness: --hostname and --chdir were given, sethostname failed, and the
\* command runs with PWD and FAKETREE but without HOSTNAME
C37_Witness ==
    /\ FullRun
    /\ sflags.hostname /\ sflags.chdir
    /\ Names(chain[3].env) = {"PWD", "FAKETREE"}

\* the processes S1 has started as S2
S2s == {p \in 1 .. Len(chain) : chain[p].by = "initializeSystem"}

\* C36: the process S1 starts as S2 is cloned into a new user namespace and
\* nothing else, with parent-death signal SIGKILL with --propagate and
\* SIGTERM without; when S1 dies that signal is sent to the process,
\* before and after it has exec'd the user command.
C36_ParentDeathSignal ==
    /\ \A p \in S2s :
          /\ chain[p].argv0 = "initialize-privileges"
          /\ chain[p].clone = {"CLONE_NEWUSER"}
          /\ chain[p].pdeathsig = IF cfg.propagate THEN SIGKILL ELSE SIGTERM
          /\ chain[p].sig \in {0, chain[p].pdeathsig}
    /\ spc = "orphaned" =>
          (Me \in S2s /\ chain[Me].sig = IF cfg.propagate THEN SIGKILL ELSE SIGTERM)

\* C36 witness: without --propagate S1 died while the user command ran,
\* which got SIGTERM
C36_Witness ==
    /\ ~cfg.propagate
    /\ spc = "orphaned"
    /\ chain[Me].fn = "user command"
    /\ chain[Me].sig = SIGTERM

\* C38 as stated: every stage is started from the binary --faketree names.
C38_FaketreeAtEachTransition ==
    \A p \in 2 .. Len(chain) : chain[p].path = sflags.faketree

\* C38: S1 starts S2 from the binary --faketree names; S0 starts S1 from
\* reexec.Self(), whatever --faketree says.
C38_FaketreeForS2 ==
    \A p \in 2 .. Len(chain) :
        /\ chain[p].by = "initializeSystem" => chain[p].path = sflags.faketree
        /\ chain[p].by = "enterSystem" => chain[p].path = ReexecSelf

\* C38 witness: with a --faketree of the user S1 was started from
\* reexec.Self() and S2 from the user's path
C38_Witness ==
    /\ Len(chain) = 3
    /\ sflags.faketree = "/opt/faketree"
    /\ chain[2].by = "enterSystem" /\ chain[2].path = ReexecSelf
    /\ chain[3].by = "initializeSystem" /\ chain[3].path = "/opt/faketree"

----------------------------------------------------------------------------
(* The command line                                                        *)

\* C18: a value of --mount that NewMountFlags accepts is written by String
\* as a text that NewMountFlags accepts too and parses into the same source,
\* target, flags, type and data.
C18_MountRoundTrip ==
    (pkind = "mount" /\ ppc = "reparsed") => (~pv2.err /\ pv2 = pv1)

\* C19: a command line that Flags.Parse accepts is handed to the next stage
\* by Flags.Args as a command line that a fresh Flags parses into the same
\* configuration, field by field, the mounts and their flags included.
C19_ArgvFaithful ==
    (pkind = "argv" /\ ppc = "reparsed") => (~pv2.err /\ pv2 = pv1)

\* what MountOptions.Parse makes of the fields before piece k of the options
BeforeData(options, k) ==
    IF k = 1 THEN [flags |-> {}, fstype |-> <<>>, err |-> FALSE]
    ELSE Parse(SubSeq(options, 1, k - 2))

\* C20: the data of an options string that holds data= is all the text from
\* just after the first data= to the end of the string, commas included,
\* and the flags and the type are those of the fields before data=.
C20_DataGreedy ==
    (pkind = "options" /\ ppc = "parsed" /\ IndexOf(pin, "data=") > 0) =>
        LET k == IndexOf(pin, "data=")
        IN  /\ pv1.data = SubSeq(pin, k + 1, Len(pin))
            /\ pv1.flags = BeforeData(pin, k).flags
            /\ pv1.fstype = BeforeData(pin, k).fstype
            /\ pv1.err = BeforeData(pin, k).err

\* the options of a serialized mount: what follows the second ":"
OptionsOf(text) ==
    IF Len(SplitN(text, ":", 3)) = 3 THEN SplitN(text, ":", 3)[3] ELSE <<>>

\* the comma separated tokens of the options before the data= token
TokensBeforeData(options) ==
    LET k == IndexOf(options, "data=")
        head == IF k = 0 THEN options ELSE SubSeq(options, 1, k - 2)
    IN  IF head = <<>> THEN <<>> ELSE Split(head, ",")

\* C21: String writes a mount as source:target, followed by ":" and the
\* options only when there are options; with the default flags no flag
\* token is written, so the options hold at most a type= and a data= token;
\* a data= token is the last one: all that follows data= is the data.
C21_SerializationShape ==
    (pkind = "mount" /\ ppc \in {"printed", "reparsed"}) =>
        LET parts == SplitN(ptxt, ":", 3)
            options == OptionsOf(ptxt)
            k == IndexOf(options, "data=")
            tokens == TokensBeforeData(options)
        IN  /\ Len(parts) \in {2, 3}
            /\ parts[1] = pv1.Source /\ parts[2] = pv1.Target
            /\ Len(parts) = 3 => options # <<>>
            /\ pv1.Flags = DefaultMountFlags =>
                  /\ (pv1.Fstype = <<>> /\ pv1.Data = <<>>) =>
                        ptxt = pv1.Source \o <<":">> \o pv1.Target
                  /\ Len(tokens) <= 1
                  /\ \A i \in 1..Len(tokens) :
                        tokens[i] = <<"type=">> \o pv1.Fstype
                  /\ (pv1.Fstype # <<>>) <=> (Len(tokens) = 1)
            /\ (k > 0) <=> (pv1.Data # <<>>)
            /\ k > 0 =>
                  /\ SubSeq(options, k + 1, Len(options)) = pv1.Data
                  /\ k = 1 \/ options[k - 1] = ","

\* a mount whose options name the default flags and a data is written
C21_Witness ==
    /\ pkind = "mount" /\ ppc = "printed"
    /\ pv1.Flags = DefaultMountFlags
    /\ pv1.Data # <<>>
    /\ IndexOf(pin, "bind") > 0

\* the command line names the uid and the gid first, as numbers
NumericIds(argv) ==
    /\ Len(argv) >= 4
    /\ argv[1] = <<"--uid">> /\ Atoi(argv[2]) >= 0
    /\ argv[3] = <<"--gid">> /\ Atoi(argv[4]) >= 0

\* C22: the uid and the gid of initializeSystem (which sets up the id maps
\* of the last stage) and of initializePrivileges (which calls setuid and
\* setgid) are the ones enterSystem computed from the command line of the
\* caller, and every command line handed to a stage starts with --uid and
\* --gid as numbers.
C22_IdentityPreserved ==
    pkind = "argv" =>
        /\ ppc \in {"reparsed", "printed2", "reparsed2"} =>
              ~pv2.err /\ pv2.Uid = pv1.Uid /\ pv2.Gid = pv1.Gid
        /\ ppc \in {"printed", "printed2"} => NumericIds(ptxt)

\* a command line without --uid and --gid has reached the last stage, whose
\* own ids are not the caller's
C22_Witness ==
    /\ pkind = "argv" /\ ppc = "reparsed2"
    /\ \A i \in 1..Len(pin) : pin[i] \notin {<<"--uid">>, <<"--gid">>, <<"--root">>}
    /\ pv1.Uid = CallerId.uid /\ pv1.Gid = CallerId.gid
    /\ SystemId # CallerId

\* --root is among the flags of the command line
HasRoot(argv) == \E i \in 1..Len(argv) : argv[i] = <<"--root">>

\* C23: with --root on the command line Flags.Parse succeeds with uid 0 and
\* gid 0 whatever --uid and --gid say, also for a user that cannot be looked
\* up, and so does the parse of every stage that follows.
C23_RootOverrides ==
    (pkind = "argv" /\ HasRoot(pin)) =>
        /\ ppc # "start" => ~pv1.err /\ pv1.Root /\ pv1.Uid = 0 /\ pv1.Gid = 0
        /\ ppc \in {"printed", "printed2"} => HasRoot(ptxt)
        /\ ppc \in {"reparsed", "printed2", "reparsed2"} =>
              ~pv2.err /\ pv2.Root /\ pv2.Uid = 0 /\ pv2.Gid = 0

\* --root came with a user that cannot be looked up, and the last stage has
\* parsed its command line
C23_Witness ==
    /\ pkind = "argv" /\ ppc = "reparsed2"
    /\ HasRoot(pin)
    /\ \E i \in 1..Len(pin) : pin[i] = <<"nobody">>

\* the places of the tokens that are neither type=, nor data=, nor the name
\* of a known option
UnknownTokens(tokens) ==
    {i \in 1..Len(tokens) :
        LET f == TrimSpace(tokens[i])
        IN  ~HasPrefix(f, "type=") /\ \A j \in 1..Len(KnownOptions) :
                                         <<KnownOptions[j].Name>> # f}

\* the values of the tokens that are names of known options
KnownValues(tokens) ==
    {KnownOptions[j].Value : j \in {j \in 1..Len(KnownOptions) :
        \E i \in 1..Len(tokens) : TrimSpace(tokens[i]) = <<KnownOptions[j].Name>>}}

C35_Options ==
    (pkind = "options" /\ ppc = "parsed") =>
        LET tokens == TokensBeforeData(pin)
            U == UnknownTokens(tokens)
            k == IndexOf(pin, "data=")
        IN  /\ pv1.err <=> U # {}
            /\ Len(pv1.errs) = Cardinality(U)
            /\ {pv1.errs[n].ix + 1 : n \in 1..Len(pv1.errs)} = U
            /\ \A n \in 1..Len(pv1.errs) :
                  /\ pv1.errs[n].field = TrimSpace(tokens[pv1.errs[n].ix + 1])
                  /\ \A m \in 1..(n - 1) : pv1.errs[m].ix < pv1.errs[n].ix
            /\ pv1.flags = KnownValues(tokens)
            /\ (\E i \in 1..Len(tokens) : HasPrefix(TrimSpace(tokens[i]), "type="))
                  \/ pv1.fstype = <<>>
            /\ \A i \in 1..Len(tokens) :
                  (TrimSpace(tokens[i]) = <<"type=", "x">>
                     /\ \A j \in (i + 1)..Len(tokens) : TrimSpace(tokens[j]) # <<"type=">>)
                  => pv1.fstype = <<"x">>
            /\ k > 0 => (pv1.data # <<>> /\ Head(pv1.data) = pin[k + 1])
            /\ k = 0 => pv1.data = <<>>

C35_Mount ==
    (pkind = "mount" /\ ppc = "parsed") =>
        LET colons == Cardinality({i \in 1..Len(pin) : pin[i] = ":"})
            third == colons >= 2 /\ OptionsOf(pin) # <<>>
        IN  /\ pv1.err <=>
                  \/ colons = 0
                  \/ third /\ UnknownTokens(TokensBeforeData(OptionsOf(pin))) # {}
            /\ pv1.err => pv1 = NoValue

\* C35: MountOptions.Parse records one error for each unknown token, in
\* order and with its place, and goes on with the tokens after it: the flags
\* are those of all the known names, type= and data= are taken wherever
\* they follow; NewMountFlags returns an error and no mount exactly when the
\* options have an unknown token or the text has fewer than two fields.
C35_UnknownTokens == C35_Options /\ C35_Mount

\* C35 witness: two unknown tokens were recorded and the type= and data=
\* tokens after them were taken
C35_Witness ==
    /\ pkind = "options" /\ ppc = "parsed"
    /\ Len(pv1.errs) = 2
    /\ pv1.fstype = <<"x">> /\ pv1.data # <<>>

====
